---------------------------- MODULE Spec2Model ----------------------------
(***************************************************************************)
(* Model of scripts/www/2代can2pros整合.py: the draw record (OpenRecord),    *)
(* the two rule predictors, the display formatter, the retrospective       *)
(* scorer and the rolling win rate of JND28Window, the ingestion of the     *)
(* server's draw history, and the window's event handlers: the countdown   *)
(* tick, the refresh, the AI prediction and its log.                       *)
(*                                                                         *)
(* Specifications.  SpecRecord, SpecFormat, SpecScorer and SpecTable apply  *)
(* one function or one load to every input of a bounded set; SpecOrder     *)
(* loads every short history, draws of equal time included; SpecIngest     *)
(* loads every bounded answer of the history request; SpecWindow runs the  *)
(* window from __init__ on, one handler per step.                          *)
(*                                                                         *)
(* Text.  A Python str is modelled as a sequence of characters, each       *)
(* character a one-element token.  The Chinese characters of the source    *)
(* are written in pinyin: 大 "da", 小 "xiao", 单 "dan", 双 "shuang",         *)
(* 对 "dui", 错 "cuo", 未知 "wei" "zhi", 数据不足 "shu" "ju" "bu" "zu",        *)
(* 获取中... "huo" "qu" "zhong" "." "." ".".                                *)
(*                                                                         *)
(* Sections.  A section is a str in the source.  A canonical decimal       *)
(* string is modelled by the number it denotes (>= 0); the strings that    *)
(* int() rejects are modelled by negative numbers.                         *)
(***************************************************************************)
EXTENDS Integers, Sequences, FiniteSets, TLC

VARIABLES
    \* ---- fields of JND28Window ----
    latest_records,          \* self.latest_records
    ai_predictions_by_issue, \* self.ai_predictions_by_issue : section -> label
    next_section,            \* self.next_section
    current_guess_desc,      \* self.current_guess_desc
    label_predict,           \* text of self.label_predict
    label_laomao_pred,       \* text of self.label_laomao_pred (after the prefix)
    label_kill2_pred,        \* text of self.label_kill2_pred (after the prefix)
    label_current_issue,     \* section shown by self.label_current_issue
    label_prev_summary,      \* record shown by self.label_prev_summary
    label_stats_main,        \* counts shown by self.label_stats_main
    label_streak,            \* streaks shown by self.label_streak
    table,                   \* rows of self.table
    deepseek_token,          \* self.deepseek_token
    edit_token,              \* text of self.edit_token
    current_section,         \* self.current_section
    remaining_seconds,       \* self.remaining_seconds
    server_djs_seconds,      \* self.server_djs_seconds
    label_current_section,   \* section shown by self.label_current_section
    label_next_section,      \* section shown by self.label_next_section
    label_server_djs,        \* seconds shown by self.label_server_djs
    label_remaining,         \* mm:ss shown by self.label_remaining
    label_big_timer,         \* mm:ss shown by self.label_big_timer
    label_ai_predict,        \* text of self.label_ai_predict
    label_ai_pred_top,       \* text of self.label_ai_pred_top (after the prefix)
    first_load,              \* the single-shot timer of line 595 has yet to fire
    dialogs,                 \* the open warning dialogs whose handler goes on after them
    \* ---- the collaborators' data ----
    server_records,          \* the records built from get_guess_json()
    shazu_predictions,       \* what get_shazu_predictions() returns
    \* ---- the call under examination ----
    called,                  \* name of the last operation applied
    arg,                     \* its argument
    ret                      \* its return value

vars == << latest_records, ai_predictions_by_issue, next_section,
           current_guess_desc, label_predict, label_laomao_pred,
           label_kill2_pred, label_current_issue, label_prev_summary,
           label_stats_main, label_streak, table,
           deepseek_token, edit_token, current_section, remaining_seconds,
           server_djs_seconds, label_current_section, label_next_section,
           label_server_djs, label_remaining, label_big_timer,
           label_ai_predict, label_ai_pred_top, first_load, dialogs,
           server_records, shazu_predictions,
           called, arg, ret >>

-----------------------------------------------------------------------------
(* Bounds of the model *)

\* largest value of one open code
MaxDigit == 9
\* longest open_codes list of a single examined record
MaxCodes == 4
\* longest string handed to the formatter from the free alphabet
MaxStrLen == 4
\* longest history list in the scorer's inputs
MaxPairRecords == 3
\* longest history list in the table's inputs
MaxRecords == 22
\* most sections the third party's page reports as hits
MaxHits == 3

-----------------------------------------------------------------------------
(* Characters and strings *)

Da == "da"
Xiao == "xiao"
Dan == "dan"
Shuang == "shuang"
Plus == "+"
Space == " "
Other == "x"

EmptyStr == << >>
Dui == << "dui" >>
Cuo == << "cuo" >>
WeiZhi == << "wei", "zhi" >>
ShuJuBuZu == << "shu", "ju", "bu", "zu" >>
HuoQuZhong == << "huo", "qu", "zhong", ".", ".", "." >>
DashDash == << "-", "-" >>

\* the four bare category labels
Labels == { <<Da, Dan>>, <<Da, Shuang>>, <<Xiao, Dan>>, <<Xiao, Shuang>> }

\* sections that int() rejects
UnknownSection == -1
EmptySection == -2

RECURSIVE SumSeq(_)
SumSeq(s) == IF s = << >> THEN 0 ELSE Head(s) + SumSeq(Tail(s))

Min(a, b) == IF a <= b THEN a ELSE b

\* s[:n]
Take(s, n) == SubSeq(s, 1, Min(n, Len(s)))

\* "".join(list)
RECURSIVE Join(_)
Join(list) == IF list = << >> THEN << >> ELSE Head(list) \o Join(Tail(list))

\* x in list
InList(x, list) == \E i \in 1..Len(list) : list[i] = x

-----------------------------------------------------------------------------
(* OpenRecord *)

OpenRecord(section, open_codes, open_time) ==
    [ section |-> section, open_codes |-> open_codes, open_time |-> open_time ]

total(r) == SumSeq(Take(r.open_codes, 3))

\* variant: the threshold of da_xiao off by one
da_xiao_gt(r) == IF total(r) > 14 THEN Da ELSE Xiao

da_xiao(r) == IF total(r) >= 14 THEN Da ELSE Xiao

dan_shuang(r) == IF total(r) % 2 = 1 THEN Dan ELSE Shuang


-----------------------------------------------------------------------------
(* Predictor A as written in update_prediction (lines 1054-1061) *)

\* variant: Predictor B's magnitude rule used in place of Predictor A's
update_guess_dx_le(last) ==
    IF last.open_codes[2] + last.open_codes[3] <= 13 THEN Da ELSE Xiao

update_guess_dx(last) ==
    IF last.open_codes[2] + last.open_codes[3] > 13 THEN Da ELSE Xiao

update_guess_ds(last) ==
    IF (last.open_codes[1] + last.open_codes[2]) % 2 = 1 THEN Dan ELSE Shuang

update_combo(last) == << update_guess_dx(last), update_guess_ds(last) >>

update_kill_combo(last) ==
    << (IF update_guess_dx(last) = Da THEN Xiao ELSE Da),
       (IF update_guess_ds(last) = Dan THEN Shuang ELSE Dan) >>

(* Predictor A as written in the scorer's loop (lines 700-702) *)

\* variant: the scorer's copy of the rule drifts from update_prediction's
score_guess_dx_ge(base) ==
    IF base.open_codes[2] + base.open_codes[3] >= 13 THEN Da ELSE Xiao

score_guess_dx(base) ==
    IF base.open_codes[2] + base.open_codes[3] > 13 THEN Da ELSE Xiao

score_guess_ds(base) ==
    IF (base.open_codes[1] + base.open_codes[2]) % 2 = 1 THEN Dan ELSE Shuang

-----------------------------------------------------------------------------
(* Predictor B: predict_kill_group_2 (lines 973-1040).  None is the absent  *)
(* prev_record.                                                            *)

None == [ none |-> TRUE ]

\* variant: the rule as the docstring words it (even and <= 8 gives xiao)
kill2_rec_first_doc(sum_n1n2) ==
    IF sum_n1n2 % 2 = 1
    THEN (IF sum_n1n2 <= 9 THEN Shuang ELSE Dan)
    ELSE (IF sum_n1n2 <= 8 THEN Xiao ELSE Dan)

kill2_rec_first(sum_n1n2) ==
    IF sum_n1n2 % 2 = 1
    THEN (IF sum_n1n2 <= 9 THEN Shuang ELSE Dan)
    ELSE (IF sum_n1n2 <= 4 THEN Shuang
          ELSE IF sum_n1n2 <= 8 THEN Xiao
          ELSE Dan)

kill2_combo_dx(sum_n2n3) == IF sum_n2n3 <= 13 THEN Da ELSE Xiao

kill2_combo_ds(rec_first) ==
    IF rec_first = Dan THEN Shuang
    ELSE IF rec_first = Shuang THEN Dan
    ELSE IF rec_first = Da THEN Dan
    ELSE Shuang

kill2_kill_group(rec_first, combo_dx, combo_ds) ==
    IF rec_first \in {Da, Xiao}
    THEN << (IF rec_first = Xiao THEN Da ELSE Xiao),
            (IF combo_ds = Shuang THEN Dan ELSE Shuang) >>
    ELSE << (IF combo_dx = Da THEN Xiao ELSE Da),
            (IF rec_first = Shuang THEN Dan ELSE Shuang) >>

\* variant: the guard lets a record of two codes through
kill2_insufficient_two(prev_record) ==
    prev_record = None \/ Len(prev_record.open_codes) < 2

\* line 996
kill2_insufficient(prev_record) ==
    prev_record = None \/ Len(prev_record.open_codes) < 3

\* what Python raises when line 999 is reached with no record or with
\* fewer than three codes
AttributeError == << "AttributeError" >>
IndexError == << "IndexError" >>

predict_kill_group_2(section, prev_record) ==
    IF kill2_insufficient(prev_record)
    THEN << WeiZhi, WeiZhi >>
    ELSE IF prev_record = None THEN AttributeError
    ELSE IF Len(prev_record.open_codes) < 3 THEN IndexError
    ELSE LET n1 == prev_record.open_codes[1]
             n2 == prev_record.open_codes[2]
             n3 == prev_record.open_codes[3]
             rec_first == kill2_rec_first(n1 + n2)
             combo_dx == kill2_combo_dx(n2 + n3)
             combo_ds == kill2_combo_ds(rec_first)
             display == << rec_first, Space, Plus, Space, combo_dx, combo_ds >>
         IN  << display, kill2_kill_group(rec_first, combo_dx, combo_ds) >>

-----------------------------------------------------------------------------
(* format_prediction_display (lines 908-971) *)

\* number of occurrences of character c in s
RECURSIVE CountChar(_, _)
CountChar(s, c) ==
    IF s = << >> THEN 0
    ELSE (IF Head(s) = c THEN 1 ELSE 0) + CountChar(Tail(s), c)

\* position of the first c in s (s holds one)
RECURSIVE FirstIndex(_, _)
FirstIndex(s, c) == IF Head(s) = c THEN 1 ELSE 1 + FirstIndex(Tail(s), c)

\* s.split(c): the list of the parts between the occurrences of c
RECURSIVE Split(_, _)
Split(s, c) ==
    IF CountChar(s, c) = 0 THEN << s >>
    ELSE LET i == FirstIndex(s, c)
         IN  << SubSeq(s, 1, i - 1) >> \o Split(SubSeq(s, i + 1, Len(s)), c)

\* s.strip(): the leading and trailing white space removed
RECURSIVE LStrip(_)
LStrip(s) ==
    IF s # << >> /\ Head(s) = Space THEN LStrip(Tail(s)) ELSE s

RECURSIVE RStrip(_)
RStrip(s) ==
    IF s # << >> /\ s[Len(s)] = Space
    THEN RStrip(SubSeq(s, 1, Len(s) - 1)) ELSE s

Strip(s) == RStrip(LStrip(s))

\* the list chosen by part1 (lines 938-948)
format_part1_list(part1) ==
    IF part1 = << Da >> THEN << <<Da, Dan>>, <<Da, Shuang>> >>
    ELSE IF part1 = << Xiao >> THEN << <<Xiao, Shuang>>, <<Xiao, Dan>> >>
    ELSE IF part1 = << Dan >> THEN << <<Da, Dan>>, <<Xiao, Dan>> >>
    ELSE IF part1 = << Shuang >> THEN << <<Da, Shuang>>, <<Xiao, Shuang>> >>
    ELSE << >>

\* variant: the combo appended without looking for it in the list
format_two_part_append(part1, part2) ==
    Join(Append(format_part1_list(part1), part2))

\* lines 950-954
format_two_part(part1, part2) ==
    LET result_list == format_part1_list(part1)
    IN  Join(IF ~InList(part2, result_list)
             THEN Append(result_list, part2)
             ELSE result_list)

\* variant: the row of xiao dan copied from the row of da dan
format_standard_copied(prediction) ==
    IF prediction = <<Da, Dan>>
    THEN <<Da, Dan, Da, Shuang, Xiao, Dan>>
    ELSE IF prediction = <<Da, Shuang>>
    THEN <<Da, Dan, Da, Shuang, Xiao, Shuang>>
    ELSE IF prediction = <<Xiao, Dan>>
    THEN <<Da, Dan, Da, Shuang, Xiao, Dan>>
    ELSE IF prediction = <<Xiao, Shuang>>
    THEN <<Da, Shuang, Xiao, Dan, Xiao, Shuang>>
    ELSE prediction

\* lines 956-971
format_standard(prediction) ==
    IF prediction = <<Da, Dan>>
    THEN <<Da, Dan, Da, Shuang, Xiao, Dan>>
    ELSE IF prediction = <<Da, Shuang>>
    THEN <<Da, Dan, Da, Shuang, Xiao, Shuang>>
    ELSE IF prediction = <<Xiao, Dan>>
    THEN <<Da, Dan, Xiao, Dan, Xiao, Shuang>>
    ELSE IF prediction = <<Xiao, Shuang>>
    THEN <<Da, Shuang, Xiao, Dan, Xiao, Shuang>>
    ELSE prediction

format_prediction_display(prediction) ==
    IF prediction = EmptyStr \/ prediction = WeiZhi \/ prediction = HuoQuZhong
    THEN prediction
    ELSE IF CountChar(prediction, Plus) > 0 /\ Len(Split(prediction, Plus)) = 2
    THEN LET parts == Split(prediction, Plus)
             part1 == Strip(parts[1])
             part2 == Strip(parts[2])
         IN  IF Len(part2) = 2 /\ part2[1] \in {Da, Xiao}
                /\ part2[2] \in {Dan, Shuang}
             THEN format_two_part(part1, part2)
             ELSE prediction
    ELSE format_standard(prediction)


-----------------------------------------------------------------------------
(* Dictionaries: a dict is a function on its set of keys *)

EmptyDict == [ k \in {} |-> EmptyStr ]

\* d[k] = v
DictSet_only(d, k, v) == k :> v

DictSet(d, k, v) ==
    [ x \in (DOMAIN d) \cup {k} |-> IF x = k THEN v ELSE d[x] ]

\* d.get(k, default)
DictGet(d, k, default) == IF k \in DOMAIN d THEN d[k] ELSE default

-----------------------------------------------------------------------------
(* sorted(records, key=lambda r: r.open_time), a stable sort.  open_time is *)
(* a fixed-width time stamp, whose string order is modelled by the order    *)
(* of the naturals.                                                        *)

\* r placed behind every record that is not later than it
RECURSIVE insert_old_to_new(_, _)
insert_old_to_new(sorted, r) ==
    IF sorted = << >> THEN << r >>
    ELSE IF Head(sorted).open_time <= r.open_time
    THEN << Head(sorted) >> \o insert_old_to_new(Tail(sorted), r)
    ELSE << r >> \o sorted

RECURSIVE sorted_old_to_new_from(_, _)
sorted_old_to_new_from(done, rest) ==
    IF rest = << >> THEN done
    ELSE sorted_old_to_new_from(insert_old_to_new(done, Head(rest)), Tail(rest))

sorted_old_to_new(records) == sorted_old_to_new_from(<< >>, records)

\* sorted(..., reverse=True): r placed behind every record not earlier than it
RECURSIVE insert_new_to_old(_, _)
insert_new_to_old(sorted, r) ==
    IF sorted = << >> THEN << r >>
    ELSE IF Head(sorted).open_time >= r.open_time
    THEN << Head(sorted) >> \o insert_new_to_old(Tail(sorted), r)
    ELSE << r >> \o sorted

RECURSIVE sorted_new_to_old_from(_, _)
sorted_new_to_old_from(done, rest) ==
    IF rest = << >> THEN done
    ELSE sorted_new_to_old_from(insert_new_to_old(done, Head(rest)), Tail(rest))

sorted_new_to_old(records) == sorted_new_to_old_from(<< >>, records)

-----------------------------------------------------------------------------
(* The retrospective scorer: the loop of load_history_and_statistics       *)
(* (lines 692-706)                                                         *)

\* variant: both axes must match
score_correct_and(base, target) ==
    /\ score_guess_dx(base) = da_xiao(target)
    /\ score_guess_ds(base) = dan_shuang(target)

\* line 705
score_correct(base, target) ==
    \/ score_guess_dx(base) = da_xiao(target)
    \/ score_guess_ds(base) = dan_shuang(target)

\* one turn of the loop: lines 694-706
score_step(result, base, target) ==
    IF Len(base.open_codes) < 3 \/ Len(target.open_codes) < 3
    THEN result
    ELSE DictSet(result, target.section,
                 IF score_correct(base, target) THEN Dui ELSE Cuo)

RECURSIVE score_loop(_, _, _)
score_loop(result, ordered, i) ==
    IF i > Len(ordered) - 1 THEN result
    ELSE score_loop(score_step(result, ordered[i], ordered[i + 1]),
                    ordered, i + 1)

predict_result_of(records) == score_loop(EmptyDict, sorted_old_to_new(records), 1)

-----------------------------------------------------------------------------
(* calculate_win_rate (lines 746-798) *)

PERIOD_COUNT == 20

NoChar == ""

DigitChars == << "0", "1", "2", "3", "4", "5", "6", "7", "8", "9" >>

\* str(n) for n >= 0
RECURSIVE Decimal(_)
Decimal(n) ==
    IF n < 10 THEN << DigitChars[n + 1] >>
    ELSE Decimal(n \div 10) \o << DigitChars[(n % 10) + 1] >>

\* num/den rounded to the nearest integer, a tie to the even one: what
\* the format f"{x:.1f}" does to the tenths of x
RoundHalfEven(num, den) ==
    LET q == num \div den
        r == num % den
    IN  IF 2 * r < den THEN q
        ELSE IF 2 * r > den THEN q + 1
        ELSE IF q % 2 = 0 THEN q ELSE q + 1

\* f"{win_rate:.1f}%" with win_rate = (correct_count / total_count) * 100
format_win_rate(correct_count, total_count) ==
    LET tenths == RoundHalfEven(1000 * correct_count, total_count)
    IN  Decimal(tenths \div 10) \o << ".", DigitChars[(tenths % 10) + 1], "%" >>

\* lines 786-787, 818-819
ai_dx_of(ai_combo) ==
    IF ai_combo # EmptyStr /\ ai_combo[1] \in {Da, Xiao}
    THEN ai_combo[1] ELSE NoChar

ai_ds_of(ai_combo) ==
    IF Len(ai_combo) > 1 /\ ai_combo[2] \in {Dan, Shuang}
    THEN ai_combo[2] ELSE NoChar

\* variant: a record without a recorded result counted as a miss
win_rate_step_all(counts, r, predict_result_by_section, shazu, ai_predictions, model_type) ==
    IF model_type = "laomao"
    THEN << counts[1] + (IF DictGet(predict_result_by_section, r.section, EmptyStr) = Dui THEN 1 ELSE 0), counts[2] + 1 >>
    ELSE IF model_type = "kill2"
    THEN << counts[1] + (IF r.section \in DOMAIN shazu /\ shazu[r.section][2] = Dui THEN 1 ELSE 0), counts[2] + 1 >>
    ELSE IF model_type = "ai"
    THEN LET ai_combo == DictGet(ai_predictions, r.section, EmptyStr)
         IN  << counts[1] + (IF \/ ai_dx_of(ai_combo) = da_xiao(r)
                                \/ ai_ds_of(ai_combo) = dan_shuang(r)
                             THEN 1 ELSE 0),
                counts[2] + 1 >>
    ELSE counts

\* the body of the loop, lines 770-792: what record r adds to
\* <<correct_count, total_count>>
win_rate_step(counts, r, predict_result_by_section, shazu, ai_predictions, model_type) ==
    IF model_type = "laomao"
    THEN LET hit == DictGet(predict_result_by_section, r.section, EmptyStr)
         IN  IF hit # EmptyStr
             THEN << counts[1] + (IF hit = Dui THEN 1 ELSE 0), counts[2] + 1 >>
             ELSE counts
    ELSE IF model_type = "kill2"
    THEN IF r.section \in DOMAIN shazu
         THEN LET kill_2_hit == shazu[r.section][2]
              IN  IF kill_2_hit # EmptyStr
                  THEN << counts[1] + (IF kill_2_hit = Dui THEN 1 ELSE 0),
                          counts[2] + 1 >>
                  ELSE counts
         ELSE counts
    ELSE IF model_type = "ai"
    THEN LET ai_combo == DictGet(ai_predictions, r.section, EmptyStr)
         IN  IF ai_combo # EmptyStr
                /\ (ai_dx_of(ai_combo) # NoChar \/ ai_ds_of(ai_combo) # NoChar)
             THEN << counts[1] + (IF \/ ai_dx_of(ai_combo) = da_xiao(r)
                                     \/ ai_ds_of(ai_combo) = dan_shuang(r)
                                  THEN 1 ELSE 0),
                     counts[2] + 1 >>
             ELSE counts
    ELSE counts

RECURSIVE win_rate_loop(_, _, _, _, _, _)
win_rate_loop(counts, target_records, predict_result_by_section, shazu, ai_predictions, model_type) ==
    IF target_records = << >> THEN counts
    ELSE win_rate_loop(
             win_rate_step(counts, Head(target_records),
                           predict_result_by_section, shazu, ai_predictions,
                           model_type),
             Tail(target_records), predict_result_by_section, shazu,
             ai_predictions, model_type)

\* variant: one rate for the whole table, the newest period_count records
win_rate_targets_global(records, start_index, period_count) ==
    SubSeq(records, 1, Min(Len(records), period_count))

\* lines 760-761: records[start_index:end_index], start_index counted from 0
win_rate_targets(records, start_index, period_count) ==
    LET end_index == Min(Len(records), start_index + period_count)
    IN  SubSeq(records, start_index + 1, end_index)

calculate_win_rate(records, predict_result_by_section, shazu, ai_predictions, model_type, start_index, period_count) ==
    IF start_index >= Len(records) THEN DashDash
    ELSE LET target_records ==
                 win_rate_targets(records, start_index, period_count)
         IN  IF target_records = << >> THEN DashDash
             ELSE LET counts == win_rate_loop(<< 0, 0 >>, target_records,
                                              predict_result_by_section,
                                              shazu, ai_predictions,
                                              model_type)
                  IN  IF counts[2] = 0 THEN DashDash
                      ELSE format_win_rate(counts[1], counts[2])


-----------------------------------------------------------------------------
(* populate_table (lines 800-868): the values of each row *)

\* lines 814-822
table_ai_hit(r, ai_predictions) ==
    LET ai_combo == DictGet(ai_predictions, r.section, EmptyStr)
    IN  IF ai_combo # EmptyStr
           /\ (ai_dx_of(ai_combo) # NoChar \/ ai_ds_of(ai_combo) # NoChar)
        THEN (IF \/ ai_dx_of(ai_combo) = da_xiao(r)
                 \/ ai_ds_of(ai_combo) = dan_shuang(r)
              THEN Dui ELSE Cuo)
        ELSE EmptyStr

\* lines 806-846; row is counted from 0 as by enumerate
table_row(records, row, predict_result_by_section, shazu, ai_predictions) ==
    LET r == records[row + 1]
    IN  [ section     |-> r.section,
          open_time   |-> r.open_time,
          code1       |-> r.open_codes[1],
          code2       |-> r.open_codes[2],
          code3       |-> r.open_codes[3],
          total       |-> total(r),
          combo       |-> << da_xiao(r), dan_shuang(r) >>,
          hit         |-> DictGet(predict_result_by_section, r.section, EmptyStr),
          kill_2_hit  |-> IF r.section \in DOMAIN shazu
                          THEN shazu[r.section][2] ELSE EmptyStr,
          ai_hit      |-> table_ai_hit(r, ai_predictions),
          laomao_rate |-> calculate_win_rate(records, predict_result_by_section, shazu, ai_predictions, "laomao", row, PERIOD_COUNT),
          kill2_rate  |-> calculate_win_rate(records, predict_result_by_section, shazu, ai_predictions, "kill2", row, PERIOD_COUNT),
          ai_rate     |-> calculate_win_rate(records, predict_result_by_section, shazu, ai_predictions, "ai", row, PERIOD_COUNT) ]

populate_table(records, predict_result_by_section, shazu) ==
    table' = [ i \in 1..Len(records) |->
                 table_row(records, i - 1, predict_result_by_section, shazu,
                           ai_predictions_by_issue) ]

-----------------------------------------------------------------------------
(* update_statistics (lines 870-904) and simple_statistics (lines 240-254) *)

\* lines 251-253: the records counted under key c
count_da_xiao(records, c) == Cardinality({ i \in 1..Len(records) : da_xiao(records[i]) = c })

count_dan_shuang(records, c) == Cardinality({ i \in 1..Len(records) : dan_shuang(records[i]) = c })

simple_statistics(records) ==
    [ total_count |-> Len(records),
      da     |-> count_da_xiao(records, Da),
      xiao   |-> count_da_xiao(records, Xiao),
      dan    |-> count_dan_shuang(records, Dan),
      shuang |-> count_dan_shuang(records, Shuang) ]

\* lines 887-893: the leading records whose da_xiao is last_dx
RECURSIVE streak_dx_of(_, _)
streak_dx_of(records, last_dx) ==
    IF records = << >> \/ da_xiao(Head(records)) # last_dx THEN 0
    ELSE 1 + streak_dx_of(Tail(records), last_dx)

\* lines 895-899
RECURSIVE streak_ds_of(_, _)
streak_ds_of(records, last_ds) ==
    IF records = << >> \/ dan_shuang(Head(records)) # last_ds THEN 0
    ELSE 1 + streak_ds_of(Tail(records), last_ds)

NoStreak == [ streak_dx |-> 0, last_dx |-> NoChar, streak_ds |-> 0, last_ds |-> NoChar ]

update_statistics(records) ==
    IF records = << >>
    THEN /\ label_stats_main' = simple_statistics(<< >>)
         /\ label_streak' = NoStreak
    ELSE /\ label_stats_main' = simple_statistics(records)
         /\ label_streak' =
              LET last == records[1]
              IN  [ streak_dx |-> streak_dx_of(records, da_xiao(last)),
                    last_dx   |-> da_xiao(last),
                    streak_ds |-> streak_ds_of(records, dan_shuang(last)),
                    last_ds   |-> dan_shuang(last) ]

-----------------------------------------------------------------------------
(* update_prediction (lines 1042-1096) *)

\* lines 1064-1067: str(int(last.section) + 1), "未知" on ValueError
next_section_of(section) == IF section >= 0 THEN section + 1 ELSE UnknownSection

\* lines 1070-1076
kill_display_2_of(next, shazu) ==
    IF next \in DOMAIN shazu THEN shazu[next][1] ELSE HuoQuZhong

\* the texts of label_predict
PredictInsufficient == [ text |-> ShuJuBuZu, next_section |-> EmptySection, combo |-> EmptyStr, kill_combo |-> EmptyStr, guess_dx |-> NoChar, guess_ds |-> NoChar, kill_display_2 |-> EmptyStr ]

PredictInitial == [ text |-> DashDash, next_section |-> EmptySection, combo |-> EmptyStr, kill_combo |-> EmptyStr, guess_dx |-> NoChar, guess_ds |-> NoChar, kill_display_2 |-> EmptyStr ]

\* line 1048
update_insufficient(last) == Len(last.open_codes) < 3

\* line 1054 raises IndexError when it is reached with fewer than three codes
update_prediction_raises(last) ==
    ~update_insufficient(last) /\ Len(last.open_codes) < 3

\* self_next_section is self.next_section and issue_label the section that
\* label_current_issue shows when update_prediction is called
update_prediction(last, shazu, self_next_section, issue_label) ==
    IF update_insufficient(last)
    THEN /\ label_predict' = PredictInsufficient
         /\ label_laomao_pred' = ShuJuBuZu
         /\ label_kill2_pred' = ShuJuBuZu
         /\ label_current_issue' = issue_label
         /\ UNCHANGED current_guess_desc
    ELSE IF update_prediction_raises(last)
    THEN /\ label_current_issue' = issue_label
         /\ UNCHANGED << label_predict, label_laomao_pred, label_kill2_pred,
                         current_guess_desc >>
    ELSE LET next == next_section_of(last.section)
             kill_display_2 == kill_display_2_of(next, shazu)
         IN  /\ current_guess_desc' = update_combo(last)
             /\ label_predict' =
                  [ text           |-> << "yu", "ce", "xia", "yi", "qi" >>,
                    next_section   |-> next,
                    combo          |-> update_combo(last),
                    kill_combo     |-> update_kill_combo(last),
                    guess_dx       |-> update_guess_dx(last),
                    guess_ds       |-> update_guess_ds(last),
                    kill_display_2 |-> kill_display_2 ]
             /\ label_laomao_pred' = format_prediction_display(update_combo(last))
             /\ label_kill2_pred' = format_prediction_display(kill_display_2)
             /\ label_current_issue' =
                  IF self_next_section # EmptySection THEN self_next_section
                  ELSE issue_label

-----------------------------------------------------------------------------
(* Ingestion: the records built from get_guess_json() (lines 668-685).  A   *)
(* raw value is what json.loads gives for one field of an entry; Missing    *)
(* is the absent key.                                                      *)

Missing == [ kind |-> "missing" ]
JNull == [ kind |-> "null" ]
JInf == [ kind |-> "inf" ]
JNaN == [ kind |-> "nan" ]
JList == [ kind |-> "list" ]
JStr(chars) == [ kind |-> "str", chars |-> chars ]
JInt(n) == [ kind |-> "int", value |-> n ]
JBool(b) == [ kind |-> "bool", value |-> b ]
\* a finite float, given in tenths
JFloat(tenths) == [ kind |-> "float", tenths |-> tenths ]

TypeError == << "TypeError" >>
ValueError == << "ValueError" >>
OverflowError == << "OverflowError" >>

Raised(e) == [ ok |-> FALSE, error |-> e ]
Returned(v) == [ ok |-> TRUE, value |-> v ]

\* the value of a decimal digit character, -1 for any other character
digit_of(c) ==
    IF \E d \in 0..9 : DigitChars[d + 1] = c
    THEN (CHOOSE d \in 0..9 : DigitChars[d + 1] = c)
    ELSE -1

\* the number a string of decimal digits denotes
RECURSIVE int_of_digits(_)
int_of_digits(s) ==
    IF s = << >> THEN 0
    ELSE 10 * int_of_digits(SubSeq(s, 1, Len(s) - 1)) + digit_of(s[Len(s)])

\* int(str): blanks around, an optional sign, then decimal digits only
int_of_str(chars) ==
    LET t == Strip(chars)
        signed == t # << >> /\ t[1] \in { "-", Plus }
        body == IF signed THEN Tail(t) ELSE t
    IN  IF body # << >> /\ \A i \in 1..Len(body) : digit_of(body[i]) >= 0
        THEN Returned(IF signed /\ t[1] = "-" THEN 0 - int_of_digits(body) ELSE int_of_digits(body))
        ELSE Raised(ValueError)

\* int(x) of Python for a raw value
py_int(v) ==
    IF v.kind = "str" THEN int_of_str(v.chars)
    ELSE IF v.kind = "int" THEN Returned(v.value)
    ELSE IF v.kind = "bool" THEN Returned(IF v.value THEN 1 ELSE 0)
    ELSE IF v.kind = "float"
         THEN Returned(IF v.tenths >= 0 THEN v.tenths \div 10 ELSE 0 - ((0 - v.tenths) \div 10))
    ELSE IF v.kind = "nan" THEN Raised(ValueError)
    ELSE IF v.kind = "inf" THEN Raised(OverflowError)
    ELSE Raised(TypeError)

\* item.get(key, "0")
item_get_code(item, i) == IF item.codes[i].kind = "missing" THEN JStr(<< "0" >>) ELSE item.codes[i]

\* lines 675-678: only TypeError and ValueError are caught
build_code(item, i) ==
    LET r == py_int(item_get_code(item, i))
    IN  IF r.ok THEN r
        ELSE IF r.error \in { TypeError, ValueError } THEN Returned(0)
        ELSE r

\* lines 672-678: the loop over range(1, 11) once codes holds done
RECURSIVE build_codes_from(_, _)
build_codes_from(item, done) ==
    IF Len(done) = 10 THEN Returned(done)
    ELSE \* the code's result, bound once
         LET r == build_code(item, Len(done) + 1)
         IN  IF r.ok THEN build_codes_from(item, Append(done, r.value)) ELSE r

\* lines 672-678: the ten codes of one entry, or the exception that escapes
build_codes(item) == build_codes_from(item, << >>)

\* the open_time of an entry without the key openTime: "", before any time
EmptyTime == 0

\* lines 679-685.  item.get("section", "") and item.get("openTime", "") give
\* "" for an absent key: the entry's section is then EmptySection and its
\* openTime EmptyTime.
build_record(item) == OpenRecord(item.section, build_codes(item).value, item.openTime)

\* data[:50]
HISTORY_LIMIT == 50

\* lines 670-685: the loop over data[:50] once records holds done
RECURSIVE build_records_from(_, _)
build_records_from(items, done) ==
    IF Len(done) = Len(items) THEN Returned(done)
    ELSE LET codes == build_codes(items[Len(done) + 1])
         IN  IF codes.ok
             THEN build_records_from(items, Append(done, build_record(items[Len(done) + 1])))
             ELSE codes

\* lines 670-685: the records of data[:50], or the exception that escapes
build_records(data) == build_records_from(Take(data, HISTORY_LIMIT), << >>)

\* what get_guess_json() does: it raises (the request or json.loads failed)
\* or returns a dict whose "data" is a list of entries
GuessJsonRaises == [ raises |-> TRUE, data |-> << >> ]
GuessJson(data) == [ raises |-> FALSE, data |-> data ]

-----------------------------------------------------------------------------
(* load_history_and_statistics (lines 664-744), for the records built from  *)
(* the server's data.  shazu_a is what get_shazu_predictions returns to     *)
(* update_prediction, shazu_b what it returns at line 733.  The trend       *)
(* canvas (line 739) is a drawing and holds no state of the model.          *)

NoSummary == [ section |-> EmptySection, codes |-> << >>, combo |-> EmptyStr ]

load_history_and_statistics(records, shazu_a, shazu_b, self_next_section, issue_label) ==
    \E predict_result_by_section \in { predict_result_of(records) } :
    \E sorted_by_time \in { sorted_new_to_old(records) } :
        /\ latest_records' = records
        /\ IF sorted_by_time # << >>
           THEN LET last == sorted_by_time[1]
                IN  /\ label_prev_summary' =
                         [ section |-> last.section,
                           codes   |-> Take(last.open_codes, 3),
                           combo   |-> << da_xiao(last), dan_shuang(last) >> ]
                    /\ update_prediction(last, shazu_a, self_next_section, issue_label)
           ELSE /\ label_current_issue' = issue_label
                /\ UNCHANGED << label_prev_summary, current_guess_desc,
                                label_predict, label_laomao_pred,
                                label_kill2_pred >>
        /\ populate_table(sorted_by_time, predict_result_by_section, shazu_b)
        /\ update_statistics(records)


\* lines 668-685 raise
load_fails(guess) == guess.raises \/ ~build_records(guess.data).ok

\* what load_history_and_statistics writes
load_vars == << latest_records, label_prev_summary, current_guess_desc,
               label_predict, label_laomao_pred, label_kill2_pred, table,
               label_stats_main, label_streak >>

\* load_history_and_statistics from the answer of get_guess_json() on: the
\* exception of a failed load is caught at line 743, before anything is
\* written
load_history_try(guess, shazu_a, shazu_b, self_next_section, issue_label) ==
    IF load_fails(guess)
    THEN label_current_issue' = issue_label /\ UNCHANGED load_vars
    ELSE \E records \in { build_records(guess.data).value } :
             load_history_and_statistics(records, shazu_a, shazu_b, self_next_section, issue_label)

-----------------------------------------------------------------------------
(* The countdown, the refresh and the AI prediction (lines 621-662 and      *)
(* 1100-1240).  label_open_time shows the wall clock plus djs and is not     *)
(* part of the model; neither is the token file that _save_deepseek_token    *)
(* writes, which only __init__ reads.                                       *)

PERIOD_SECONDS == 210

\* cur = "--" (line 632), also the first text of the two section labels
DashSection == -3

\* the first texts "-- 秒" and "--:--" of the countdown labels
NoSeconds == << "-", "-" >>
NoTime == << "-", "-", ":", "-", "-" >>

\* "获取失败"
HuoQuShiBai == << "huo", "qu", "shi", "bai" >>

\* what get_next_info() does: it raises, or returns a dict with the next
\* section (EmptySection for an absent key) and the raw value of djs
NextInfoRaises == [ raises |-> TRUE, section |-> EmptySection, djs |-> Missing ]
NextInfo(section, djs) == [ raises |-> FALSE, section |-> section, djs |-> djs ]

\* a countdown that int() rejects taken for the default
djs_of_lenient(next_info) ==
    IF next_info.djs.kind = "missing" \/ ~py_int(next_info.djs).ok
    THEN Returned(PERIOD_SECONDS)
    ELSE py_int(next_info.djs)

\* line 626: int(next_info.get("djs", self.PERIOD_SECONDS))
djs_of(next_info) ==
    IF next_info.djs.kind = "missing" THEN Returned(PERIOD_SECONDS)
    ELSE py_int(next_info.djs)

\* lines 624-626 raise
next_info_fails(next_info) == next_info.raises \/ ~djs_of(next_info).ok

\* lines 629-632: str(int(next_section) - 1), "--" on ValueError
current_section_of(section) == IF section >= 0 THEN section - 1 ELSE DashSection

Max(a, b) == IF a >= b THEN a ELSE b

\* lines 649 and 1235: the number in the text of label_server_djs
seconds_text(seconds) == << seconds >>

\* lines 1219-1221: the minutes and the seconds of the text mm:ss
remaining_text(seconds) == << Max(seconds, 0) \div 60, Max(seconds, 0) % 60 >>

\* what the DeepSeek request does: it raises (the request, the status, the
\* JSON or the shape of the answer), or gives the content of the first choice
AiRaises == [ raises |-> TRUE, content |-> EmptyStr ]
AiContent(content) == [ raises |-> FALSE, content |-> content ]

\* line 1178
AI_KEYWORDS == << <<Da, Dan>>, <<Da, Shuang>>, <<Xiao, Dan>>, <<Xiao, Shuang>> >>

\* kw in ai_text
Contains(text, kw) ==
    \E i \in 1..(Len(text) - Len(kw) + 1) : SubSeq(text, i, i + Len(kw) - 1) = kw

\* lines 1170-1181: the stripped content, or the first keyword it contains
ai_text_of(response) ==
    LET ai_text == Strip(response.content)
    IN  IF \E k \in 1..Len(AI_KEYWORDS) : Contains(ai_text, AI_KEYWORDS[k])
        THEN AI_KEYWORDS[CHOOSE k \in 1..Len(AI_KEYWORDS) :
                 /\ Contains(ai_text, AI_KEYWORDS[k])
                 /\ \A j \in 1..(k - 1) : ~Contains(ai_text, AI_KEYWORDS[j])]
        ELSE ai_text

\* line 1183
ai_text_recorded_any(ai_text) == ai_text # EmptyStr

ai_text_recorded(ai_text) == InList(ai_text, AI_KEYWORDS)

\* line 1113
ai_token(self_token, edit_text) == IF self_token # EmptyStr THEN self_token ELSE Strip(edit_text)

\* how a call of _run_ai_predict ends: "no_token" (line 1117), "no_data"
\* (line 1122), "error" (line 1198), "no_label" or "recorded"
ai_outcome(self_token, edit_text, records, target_issue, response) ==
    IF ai_token(self_token, edit_text) = EmptyStr THEN "no_token"
    ELSE IF records = << >> \/ target_issue = EmptySection THEN "no_data"
    ELSE IF response.raises THEN "error"
    ELSE IF ai_text_recorded(ai_text_of(response)) THEN "recorded"
    ELSE "no_label"

NoAiPredict == [ target_issue |-> EmptySection, text |-> DashDash ]

\* _run_ai_predict (lines 1111-1202) up to its return or to the warning of
\* line 1200, which is shown when auto is false; records and target_issue
\* are self.latest_records and self.next_section at the call, open_dialogs
\* the dialogs open at the call
run_ai_predict(auto, self_token, edit_text, records, target_issue, response, open_dialogs) ==
    LET outcome == ai_outcome(self_token, edit_text, records, target_issue, response)
        ai_text == ai_text_of(response)
    IN  IF outcome \in { "no_token", "no_data" }
        THEN /\ dialogs' = open_dialogs
             /\ UNCHANGED << ai_predictions_by_issue, label_ai_predict, label_ai_pred_top >>
        ELSE IF outcome = "error"
        THEN /\ UNCHANGED << ai_predictions_by_issue, label_ai_predict >>
             /\ IF auto
                THEN label_ai_pred_top' = HuoQuShiBai /\ dialogs' = open_dialogs
                ELSE dialogs' = Append(open_dialogs, "ai_failed") /\ UNCHANGED label_ai_pred_top
        ELSE /\ ai_predictions_by_issue' =
                  IF outcome = "recorded"
                  THEN DictSet(ai_predictions_by_issue, target_issue, ai_text)
                  ELSE ai_predictions_by_issue
             /\ label_ai_predict' =
                  [ target_issue |-> target_issue,
                    text |-> IF ai_text = EmptyStr THEN HuoQuShiBai ELSE ai_text ]
             /\ label_ai_pred_top' =
                  IF outcome = "recorded" THEN format_prediction_display(ai_text)
                  ELSE IF ai_text = EmptyStr THEN HuoQuShiBai ELSE ai_text
             /\ dialogs' = open_dialogs

-----------------------------------------------------------------------------
(* The window as __init__ leaves it (lines 370-381 and the labels' first    *)
(* texts)                                                                  *)

LabelsInit ==
    /\ next_section = EmptySection
    /\ current_guess_desc = EmptyStr
    /\ label_predict = PredictInitial
    /\ label_laomao_pred = DashDash
    /\ label_kill2_pred = DashDash
    /\ label_current_issue = EmptySection
    /\ label_prev_summary = NoSummary
    /\ label_stats_main = simple_statistics(<< >>)
    /\ label_streak = NoStreak
    /\ table = << >>

\* lines 371, 374, 379, 381, the labels' first texts, the timers of lines
\* 585-595, and _load_deepseek_token (lines 599-610) for a token file that
\* holds token ("" when there is none)
FieldsInit(token) ==
    /\ deepseek_token = token
    /\ edit_token = token
    /\ current_section = EmptySection
    /\ remaining_seconds = 0
    /\ server_djs_seconds = 0
    /\ label_current_section = DashSection
    /\ label_next_section = DashSection
    /\ label_server_djs = NoSeconds
    /\ label_remaining = NoTime
    /\ label_big_timer = << 0, 0 >>
    /\ label_ai_predict = NoAiPredict
    /\ label_ai_pred_top = DashDash
    /\ first_load = TRUE
    /\ dialogs = << >>

WindowInit ==
    /\ latest_records = << >>
    /\ ai_predictions_by_issue = EmptyDict
    /\ LabelsInit
    /\ FieldsInit(EmptyStr)

\* the fields and labels that the countdown, the refresh and the AI
\* prediction own
ui_vars == << deepseek_token, edit_token, current_section, remaining_seconds,
             server_djs_seconds, label_current_section, label_next_section,
             label_server_djs, label_remaining, label_big_timer,
             label_ai_predict, label_ai_pred_top, first_load, dialogs >>

window_vars == << latest_records, ai_predictions_by_issue, next_section,
                  current_guess_desc, label_predict, label_laomao_pred,
                  label_kill2_pred, label_current_issue, label_prev_summary,
                  label_stats_main, label_streak, table, ui_vars >>

NoArg == << >>
NoRet == << >>

-----------------------------------------------------------------------------
(* The answers of the collaborators to the window's requests *)

\* largest countdown the sampled answers of get_next_info() hold
MaxDjs == 2

\* most warning dialogs open at once whose handler goes on after them
MaxDialogs == 1

\* one entry of get_guess_json(): three codes as digit strings, the other
\* seven keys absent
RawEntry(section, c1, c2, c3, time) ==
    [ section  |-> section,
      codes    |-> [ i \in 1..10 |-> IF i = 1 THEN c1 ELSE IF i = 2 THEN c2 ELSE IF i = 3 THEN c3 ELSE Missing ],
      openTime |-> time ]

Entry101 == RawEntry(101, JStr(<< "0" >>), JStr(<< "9" >>), JStr(<< "5" >>), 1)
Entry102 == RawEntry(102, JStr(<< "1" >>), JStr(<< "9" >>), JStr(<< "9" >>), 2)

GuessJsons == { GuessJsonRaises, GuessJson(<< Entry102, Entry101 >>) }

\* lines 668-685 for each of these answers: the records built, or the
\* exception raised
RequestException == << "RequestException" >>

built_records ==
    [ guess \in GuessJsons |->
        IF guess.raises THEN Raised(RequestException) ELSE build_records(guess.data) ]

NextSections == { EmptySection, 102, 103 }

\* get_next_info() raises, gives a countdown int() rejects, or gives a next
\* section and a countdown, which a late answer makes negative
NextInfos ==
    { NextInfoRaises, NextInfo(103, JStr(<< "a" >>)), NextInfo(103, JInt(0 - 1)) }
        \cup { NextInfo(sec, JInt(MaxDjs)) : sec \in NextSections }

\* the third party's page holds an answered and an open prediction
WindowShazus ==
    { (102 :> << << Dan, Space, Plus, Space, Da, Shuang >>, Dui >>) @@
      (103 :> << << Xiao, Space, Plus, Space, Da, Dan >>, EmptyStr >>) }

AiResponses ==
    { AiRaises, AiContent(<< Other >>), AiContent(<< Da, Dan >>),
      AiContent(<< Other, Xiao, Shuang, Space >>) }

\* the text the user may type into the token box
TokenTexts == { << Space, "t" >> }

-----------------------------------------------------------------------------
(* The event handlers of the window.  ret holds what the handler did: how   *)
(* its refresh, its load and its AI prediction ended ("none" when it ran    *)
(* none).  A warning dialog runs an event loop of its own: the timers go on  *)
(* firing while it is open, the buttons and the token box are blocked, and   *)
(* the handler that opened it goes on when it is dismissed.  dialogs holds   *)
(* the open dialogs after which a handler has something left to do.         *)

Trace(refresh, load, ai) == [ refresh |-> refresh, load |-> load, ai |-> ai ]

ai_vars == << ai_predictions_by_issue, label_ai_predict, label_ai_pred_top >>

\* auto_refresh_from_server (lines 621-658), called when the countdown
\* fields and labels hold rem, sdjs, l_rem, l_big and l_sdjs; arg holds the
\* answer of get_next_info() to the call
auto_refresh_from_server(rem, sdjs, l_rem, l_big, l_sdjs) ==
    \E next_info \in NextInfos :
        /\ arg' = next_info
        /\ IF next_info_fails(next_info)
           THEN
             /\ remaining_seconds' = rem
             /\ server_djs_seconds' = sdjs
             /\ label_remaining' = l_rem
             /\ label_big_timer' = l_big
             /\ label_server_djs' = l_sdjs
             /\ ret' = Trace("failed", "none", "none")
             /\ UNCHANGED << current_section, next_section, label_current_section,
                             label_next_section, label_current_issue, load_vars,
                             ai_vars, dialogs, server_records, shazu_predictions >>
           ELSE
             LET djs == djs_of(next_info).value
                 next == next_info.section
             IN  /\ current_section' = current_section_of(next)
                 /\ next_section' = next
                 /\ remaining_seconds' = djs
                 /\ server_djs_seconds' = djs
                 /\ label_current_section' = current_section_of(next)
                 /\ label_next_section' = next
                 /\ label_server_djs' = seconds_text(djs)
                 /\ label_remaining' = remaining_text(djs)
                 /\ label_big_timer' = remaining_text(djs)
                 /\ \E guess \in GuessJsons :
                        IF ~built_records[guess].ok
                        THEN /\ label_current_issue' = next
                             /\ UNCHANGED << load_vars, ai_vars, server_records, shazu_predictions >>
                             /\ IF deepseek_token # EmptyStr
                                THEN /\ Len(dialogs) < MaxDialogs
                                     /\ dialogs' = Append(dialogs, "load_failed")
                                     /\ ret' = Trace("done", "failed", "pending")
                                ELSE /\ UNCHANGED dialogs
                                     /\ ret' = Trace("done", "failed", "none")
                        ELSE \E records \in { built_records[guess].value } :
                                 /\ \E shazu \in WindowShazus :
                                        /\ load_history_and_statistics(records, shazu, shazu, next, next)
                                        /\ shazu_predictions' = shazu
                                 /\ server_records' = records
                                 /\ IF deepseek_token # EmptyStr
                                    THEN \E response \in AiResponses :
                                            /\ run_ai_predict(TRUE, deepseek_token, edit_token, records, next, response, dialogs)
                                            /\ ret' = Trace("done", "done", ai_outcome(deepseek_token, edit_token, records, next, response))
                                    ELSE /\ UNCHANGED << ai_vars, dialogs >>
                                         /\ ret' = Trace("done", "done", "none")

\* on_timer_tick (lines 1227-1240)
tick_refreshes_lt(remaining) == remaining < 0

tick_refreshes(remaining) == remaining <= 0

\* lines 1229-1230
tick_remaining(remaining) == IF remaining > 0 THEN remaining - 1 ELSE remaining

\* the server's countdown left as it is
tick_server_djs_kept(seconds) == seconds

\* lines 1233-1234
tick_server_djs(seconds) == IF seconds > 0 THEN seconds - 1 ELSE seconds

on_timer_tick ==
    LET rem == tick_remaining(remaining_seconds)
        sdjs == tick_server_djs(server_djs_seconds)
    IN  IF tick_refreshes(rem)
        THEN auto_refresh_from_server(rem, sdjs, remaining_text(rem), remaining_text(rem), seconds_text(Max(sdjs, 0)))
        ELSE /\ remaining_seconds' = rem
             /\ server_djs_seconds' = sdjs
             /\ label_remaining' = remaining_text(rem)
             /\ label_big_timer' = remaining_text(rem)
             /\ label_server_djs' = seconds_text(Max(sdjs, 0))
             /\ ret' = Trace("none", "none", "none")
             /\ arg' = NoArg
             /\ UNCHANGED << current_section, next_section, label_current_section,
                             label_next_section, label_current_issue, load_vars,
                             ai_vars, dialogs, server_records, shazu_predictions >>

\* manual_refresh (lines 660-662)
manual_refresh ==
    auto_refresh_from_server(remaining_seconds, server_djs_seconds, label_remaining, label_big_timer, label_server_djs)

\* on_ai_predict_clicked (lines 1100-1109)
on_ai_predict_clicked ==
    LET token == Strip(edit_token)
    IN  IF token = EmptyStr
        THEN /\ ret' = Trace("none", "none", "no_token")
             /\ UNCHANGED << deepseek_token, ai_vars, dialogs >>
        ELSE /\ deepseek_token' = token
             /\ \E response \in AiResponses :
                    /\ run_ai_predict(FALSE, token, edit_token, latest_records, next_section, response, dialogs)
                    /\ ret' = Trace("none", "none", ai_outcome(token, edit_token, latest_records, next_section, response))

\* the dialogs under the one on top
Pop(stack) == SubSeq(stack, 1, Len(stack) - 1)

\* the warning of line 744 is dismissed: auto_refresh_from_server goes on at
\* line 655
after_load_failed ==
    IF deepseek_token # EmptyStr
    THEN \E response \in AiResponses :
            /\ run_ai_predict(TRUE, deepseek_token, edit_token, latest_records, next_section, response, Pop(dialogs))
            /\ ret' = Trace("resumed", "failed", ai_outcome(deepseek_token, edit_token, latest_records, next_section, response))
    ELSE /\ dialogs' = Pop(dialogs)
         /\ UNCHANGED ai_vars
         /\ ret' = Trace("resumed", "failed", "none")

\* the warning of line 1200 is dismissed: _run_ai_predict goes on at line 1202
after_ai_failed_forgets ==
    /\ dialogs' = Pop(dialogs)
    /\ label_ai_pred_top' = HuoQuShiBai
    /\ ret' = Trace("none", "none", "error")
    /\ ai_predictions_by_issue' = EmptyDict
    /\ UNCHANGED label_ai_predict

after_ai_failed ==
    /\ dialogs' = Pop(dialogs)
    /\ label_ai_pred_top' = HuoQuShiBai
    /\ ret' = Trace("none", "none", "error")
    /\ UNCHANGED << ai_predictions_by_issue, label_ai_predict >>

-----------------------------------------------------------------------------
(* SpecWindow: the window from __init__ on, under the timer's ticks, the    *)
(* two buttons, the token box and the answers of the collaborators.  The    *)
(* single-shot timer of 100 ms (line 595) fires before the first tick of    *)
(* the one-second timer and before the user's first input.                  *)

\* what the token file holds at the start: nothing, or a token
SavedTokens == { EmptyStr, << "t" >> }

NoTrace == Trace("none", "none", "none")

InitWindow ==
    /\ latest_records = << >>
    /\ ai_predictions_by_issue = EmptyDict
    /\ LabelsInit
    /\ \E token \in SavedTokens : FieldsInit(token)
    /\ server_records = << >>
    /\ shazu_predictions = EmptyDict
    /\ called = "init"
    /\ arg = NoArg
    /\ ret = NoTrace

\* the single-shot timer of line 595 fires
FirstLoad ==
    /\ first_load
    /\ first_load' = FALSE
    /\ called' = "auto_refresh_from_server"
    /\ auto_refresh_from_server(remaining_seconds, server_djs_seconds, label_remaining, label_big_timer, label_server_djs)
    /\ UNCHANGED << deepseek_token, edit_token >>

\* the one-second timer of lines 586-589 fires
TimerTick ==
    /\ ~first_load
    /\ called' = "on_timer_tick"
    /\ on_timer_tick
    /\ UNCHANGED << deepseek_token, edit_token, first_load >>

\* the refresh button is clicked (line 474)
ClickRefresh ==
    /\ ~first_load
    /\ dialogs = << >>
    /\ called' = "manual_refresh"
    /\ manual_refresh
    /\ UNCHANGED << deepseek_token, edit_token, first_load >>

\* the AI button is clicked (line 551)
ClickAiPredict ==
    /\ ~first_load
    /\ dialogs = << >>
    /\ called' = "on_ai_predict_clicked"
    /\ on_ai_predict_clicked
    /\ arg' = NoArg
    /\ UNCHANGED << current_section, next_section, remaining_seconds,
                    server_djs_seconds, label_current_section, label_next_section,
                    label_server_djs, label_remaining, label_big_timer,
                    label_current_issue, load_vars, edit_token, first_load,
                    server_records, shazu_predictions >>

\* the user changes the text of the token box (line 538)
TypeToken ==
    /\ ~first_load
    /\ dialogs = << >>
    /\ \E text \in TokenTexts \ { edit_token } : edit_token' = text
    /\ called' = "edit_token"
    /\ ret' = NoTrace
    /\ arg' = NoArg
    /\ UNCHANGED << latest_records, ai_predictions_by_issue, next_section,
                    current_guess_desc, label_predict, label_laomao_pred,
                    label_kill2_pred, label_current_issue, label_prev_summary,
                    label_stats_main, label_streak, table, deepseek_token,
                    current_section, remaining_seconds, server_djs_seconds,
                    label_current_section, label_next_section, label_server_djs,
                    label_remaining, label_big_timer, label_ai_predict,
                    label_ai_pred_top, first_load, dialogs, server_records,
                    shazu_predictions >>

\* what a dismissed dialog leaves alone
dismiss_frame == << current_section, next_section, remaining_seconds,
                   server_djs_seconds, label_current_section, label_next_section,
                   label_server_djs, label_remaining, label_big_timer,
                   label_current_issue, load_vars, deepseek_token, edit_token,
                   first_load, server_records, shazu_predictions >>

\* the user dismisses the warning of a failed load
DismissLoadWarning ==
    /\ dialogs # << >>
    /\ dialogs[Len(dialogs)] = "load_failed"
    /\ called' = "auto_refresh_from_server"
    /\ after_load_failed
    /\ arg' = NoArg
    /\ UNCHANGED dismiss_frame

\* the user dismisses the warning of a failed AI prediction
DismissAiWarning ==
    /\ dialogs # << >>
    /\ dialogs[Len(dialogs)] = "ai_failed"
    /\ called' = "on_ai_predict_clicked"
    /\ after_ai_failed
    /\ arg' = NoArg
    /\ UNCHANGED dismiss_frame

NextWindow ==
    \/ FirstLoad
    \/ TimerTick
    \/ ClickRefresh
    \/ ClickAiPredict
    \/ TypeToken
    \/ DismissLoadWarning
    \/ DismissAiWarning

SpecWindow == InitWindow /\ [][NextWindow]_vars

-----------------------------------------------------------------------------
(* Properties of the window under SpecWindow.  Every step is one handler,   *)
(* named by called'; ret' tells how its refresh, its load and its AI call   *)
(* ended.                                                                  *)

\* the step ran a refresh past get_next_info(), or the rest of one
RefreshedStep == ret'.refresh \in { "done", "resumed" }

\* C12 as stated: the AI prediction log is append-only, a section once
\* recorded keeps the same prediction in every later state
C12_AppendOnly ==
    [][ \A s \in DOMAIN ai_predictions_by_issue :
            /\ s \in DOMAIN ai_predictions_by_issue'
            /\ ai_predictions_by_issue'[s] = ai_predictions_by_issue[s] ]_vars

\* C12 amended: a section once recorded keeps an entry in every later state,
\* the entry is always one of the four labels, and it changes only when a
\* later AI prediction for that same section, then the next section, returns
\* a label, which replaces it
C12_LastWriteWins ==
    [][ \A s \in DOMAIN ai_predictions_by_issue :
            /\ s \in DOMAIN ai_predictions_by_issue'
            /\ ai_predictions_by_issue'[s] \in Labels
            /\ ai_predictions_by_issue'[s] # ai_predictions_by_issue[s]
                   => s = next_section' /\ ret'.ai = "recorded" ]_vars

\* C12 witness: the table scored section 102 as a hit of the AI, which the
\* entry the log now holds for 102 is not: the entry was replaced after the
\* load, while the entry of section 103 was kept
C12_Replaced ==
    /\ 102 \in DOMAIN ai_predictions_by_issue
    /\ 103 \in DOMAIN ai_predictions_by_issue
    /\ ai_predictions_by_issue[102] = << Xiao, Shuang >>
    /\ \E i \in 1..Len(table) : table[i].section = 102 /\ table[i].ai_hit = Dui

\* C13 as stated: every write to the prediction log happens as part of a
\* refresh, no other event handler adds or changes an entry
C13_RefreshOnly ==
    [][ ai_predictions_by_issue' # ai_predictions_by_issue => RefreshedStep ]_vars

\* C13 amended: every write to the prediction log is a label recorded by
\* _run_ai_predict, reached from a refresh (or from the rest of one after the
\* warning of a failed load) or from the AI button; a tick that triggers no
\* refresh, an edit of the token box and the dismissal of a warning of the
\* AI button never change the log
C13_TwoWriters ==
    [][ /\ ai_predictions_by_issue' # ai_predictions_by_issue
            => /\ ret'.ai = "recorded"
               /\ RefreshedStep \/ called' = "on_ai_predict_clicked"
        /\ called' = "edit_token" \/ ret'.ai # "recorded"
            => ai_predictions_by_issue' = ai_predictions_by_issue ]_vars

\* C13 witness: the AI button has recorded a prediction for the next section
C13_ButtonWrote ==
    /\ called = "on_ai_predict_clicked"
    /\ ret.ai = "recorded"
    /\ ret.refresh = "none"
    /\ next_section \in DOMAIN ai_predictions_by_issue

\* C16: each value of the AI prediction log is one of the four labels, a
\* write is made under the next section of the AI call, and a call that
\* fails, finds no label or is skipped (no token, no history, no next
\* section) leaves the log unchanged
C16_LabelsUnderNextSection ==
    [][ /\ \A s \in DOMAIN ai_predictions_by_issue' : ai_predictions_by_issue'[s] \in Labels
        /\ ret'.ai = "recorded"
            => /\ next_section' # EmptySection
               /\ latest_records' # << >>
               /\ \E label \in Labels :
                      ai_predictions_by_issue' = DictSet(ai_predictions_by_issue, next_section', label)
        /\ ret'.ai \in { "error", "no_label", "no_token", "no_data" }
            => ai_predictions_by_issue' = ai_predictions_by_issue ]_vars

\* C16 witness: a label taken out of a longer answer is in the log under the
\* next section
C16_Recorded ==
    /\ ret.ai = "recorded"
    /\ next_section \in DOMAIN ai_predictions_by_issue
    /\ ai_predictions_by_issue[next_section] = << Xiao, Shuang >>
    /\ label_ai_predict = [ target_issue |-> next_section, text |-> << Xiao, Shuang >> ]

\* the countdown after the decrement of lines 1229-1230
ticked(remaining) == IF remaining > 0 THEN remaining - 1 ELSE remaining

\* C17: a tick lowers remaining_seconds by exactly one when it is positive
\* and leaves it alone otherwise, and it triggers a refresh exactly when
\* remaining_seconds is <= 0 after that; so a tick from n > 1 triggers none
\* and leaves n - 1, and the tick from 1 triggers one
C17_Countdown ==
    [][ called' = "on_timer_tick"
            => /\ ret'.refresh # "none" <=> ticked(remaining_seconds) <= 0
               /\ ret'.refresh \in { "none", "failed" }
                      => remaining_seconds' = ticked(remaining_seconds)
               /\ remaining_seconds > 1
                      => ret'.refresh = "none" /\ remaining_seconds' = remaining_seconds - 1
               /\ remaining_seconds = 1 => ret'.refresh # "none" ]_vars

\* C17 witness: a tick has lowered the countdown of the server's answer by
\* one and triggered no refresh
C17_Ticked ==
    /\ called = "on_timer_tick"
    /\ ret.refresh = "none"
    /\ remaining_seconds = MaxDjs - 1
    /\ label_remaining = remaining_text(MaxDjs - 1)

\* the step called auto_refresh_from_server: arg' is the answer that
\* get_next_info() gave it
RefreshCalled == arg' # NoArg

\* the countdown of the answer is an integer, or a string that reads as one,
\* or absent (the default is taken)
CountdownIsInteger(v) ==
    \/ v.kind \in { "missing", "int" }
    \/ v.kind = "str" /\ v.chars # << >> /\ \A i \in 1..Len(v.chars) : digit_of(v.chars[i]) >= 0

\* the next-draw fetch failed: get_next_info() raised, or its countdown is
\* not an integer
FetchFailed(next_info) == next_info.raises \/ ~CountdownIsInteger(next_info.djs)

\* C22: a refresh whose next-draw fetch fails (get_next_info raises, or its
\* countdown is not an integer) leaves current_section, next_section,
\* remaining_seconds, server_djs_seconds, latest_records and the AI
\* prediction log as it found them (on a tick: as the tick left the two
\* countdowns before it called the refresh), and the failure does not
\* propagate: the handler ends there, without a load or an AI prediction
C22_FailedFetchFrame ==
    [][ (RefreshCalled /\ FetchFailed(arg'))
            => /\ current_section' = current_section
               /\ next_section' = next_section
               /\ latest_records' = latest_records
               /\ ai_predictions_by_issue' = ai_predictions_by_issue
               /\ remaining_seconds' =
                      IF called' = "on_timer_tick" THEN ticked(remaining_seconds)
                      ELSE remaining_seconds
               /\ server_djs_seconds' =
                      IF called' = "on_timer_tick" THEN ticked(server_djs_seconds)
                      ELSE server_djs_seconds
               /\ ret' = Trace("failed", "none", "none") ]_vars

\* C22 witness: the refresh button was clicked on a window that holds
\* records, a next section, a running countdown and a logged prediction, and
\* the answer's countdown was not an integer
C22_FetchFailed ==
    /\ called = "manual_refresh"
    /\ arg = NextInfo(103, JStr(<< "a" >>))
    /\ ret.refresh = "failed"
    /\ next_section = 102
    /\ current_section = 101
    /\ remaining_seconds = 1
    /\ server_djs_seconds = 1
    /\ latest_records # << >>
    /\ 102 \in DOMAIN ai_predictions_by_issue

\* C23: in every reachable state, after any sequence of ticks and of
\* successful or failed refreshes, the local countdown and the server's
\* countdown hold the same value
C23_CountdownsEqual == remaining_seconds = server_djs_seconds

\* C23 witness: the countdown of a successful refresh has been ticked down
\* to zero, and the refresh of the last tick failed
C23_TickedToZero ==
    /\ called = "on_timer_tick"
    /\ arg = NextInfoRaises
    /\ ret.refresh = "failed"
    /\ next_section = 102
    /\ remaining_seconds = 0
    /\ server_djs_seconds = 0

-----------------------------------------------------------------------------
(* SpecIngest: load_history_and_statistics on a fresh window, for the data  *)
(* of get_guess_json() with up to MaxEntries entries.  arg is the data.     *)

\* most entries of the data
MaxEntries == 2

\* what json.loads may give for a field openCode(i)
RawValues ==
    { Missing, JNull, JList, JNaN, JInf, JInt(5), JBool(TRUE), JFloat(39), JFloat(0 - 39),
      JStr(<< "7" >>), JStr(<< Space, "7", Space >>), JStr(<< "-", "2" >>),
      JStr(<< "1", "2" >>), JStr(<< "a" >>), JStr(<< "3", ".", "5" >>), JStr(EmptyStr) }

\* entry k of the data: openCode1 is any raw value, openCode3 is absent or
\* a digit, the other codes are absent
IngestEntries(n) == [ 1..n -> RawValues \X { Missing, JStr(<< "9" >>) } ]

InitIngest ==
    /\ latest_records = << >>
    /\ ai_predictions_by_issue = EmptyDict
    /\ LabelsInit
    /\ FieldsInit(EmptyStr)
    /\ server_records = << >>
    /\ shazu_predictions = EmptyDict
    /\ called = "init"
    /\ ret = NoRet
    /\ \E n \in 0..MaxEntries : \E f \in IngestEntries(n) :
          arg = [ k \in 1..n |-> RawEntry(100 + k, f[k][1], Missing, f[k][2], k) ]

\* load_history_and_statistics once the data has arrived; ret is what lines
\* 670-685 gave, the records or the exception
Ingest ==
    /\ called = "init"
    /\ called' = "load_history_and_statistics"
    /\ load_history_try(GuessJson(arg), EmptyDict, EmptyDict, next_section, label_current_issue)
    /\ ret' = build_records(arg)
    /\ UNCHANGED << ai_predictions_by_issue, next_section, ui_vars,
                    server_records, shazu_predictions, arg >>

NextIngest == Ingest

SpecIngest == InitIngest /\ [][NextIngest]_vars

\* the field is present and numeric: an integer, or a string of digits
IsNumeric(v) ==
    \/ v.kind = "int"
    \/ v.kind = "str" /\ v.chars # << >> /\ \A i \in 1..Len(v.chars) : digit_of(v.chars[i]) >= 0

\* the field is missing, null or non-numeric: neither a number nor a string
\* that reads as one
IsDefaulted(v) ==
    \/ v.kind \in { "missing", "null", "list" }
    \/ v.kind = "str" /\ \A i \in 1..Len(v.chars) : digit_of(v.chars[i]) < 0

\* C14: every entry of the data gives a record, no field aborts the load;
\* each record has exactly 10 codes, code i is the integer value of
\* openCode(i) when that is present and numeric, and 0 when it is missing,
\* null or non-numeric
C14_Ingestion ==
    called = "load_history_and_statistics"
        => /\ ret.ok
           /\ Len(latest_records) = Len(arg)
           /\ \A k \in 1..Len(latest_records) :
                  /\ latest_records[k].section = arg[k].section
                  /\ Len(latest_records[k].open_codes) = 10
                  /\ \A i \in 1..10 :
                         LET v == arg[k].codes[i]
                         IN  /\ latest_records[k].open_codes[i] \in Int
                             /\ IsNumeric(v) => latest_records[k].open_codes[i] = py_int(v).value
                             /\ IsDefaulted(v) => latest_records[k].open_codes[i] = 0

-----------------------------------------------------------------------------
(* SpecRecord: the functions of one record, applied to every record with    *)
(* up to MaxCodes open codes                                               *)

Digits == 0..MaxDigit

\* the lists of up to maxlen open codes
CodeLists(maxlen) == UNION { [ 1..n -> Digits ] : n \in 0..maxlen }

\* the section of the examined record: a number and a string int() rejects
RecordSections == { 7, EmptySection }

RecordArgs(maxlen) ==
    { OpenRecord(sec, codes, 1) : sec \in RecordSections, codes \in CodeLists(maxlen) }

\* what the third party's page may hold when update_prediction asks
RecordShazus ==
    { EmptyDict,
      8 :> << << Dan, Space, Plus, Space, Da, Shuang >>, EmptyStr >>,
      7 :> << << Xiao, Space, Plus, Space, Da, Shuang >>, Dui >> }

InitRecord ==
    /\ WindowInit
    /\ server_records = << >>
    /\ shazu_predictions = EmptyDict
    /\ called = "init"
    /\ arg \in RecordArgs(MaxCodes) \cup { None }
    /\ ret = NoRet

\* the three properties of OpenRecord are read
ReadProperties ==
    /\ called = "init"
    /\ arg # None
    /\ called' = "properties"
    /\ ret' = [ total |-> total(arg), da_xiao |-> da_xiao(arg),
                dan_shuang |-> dan_shuang(arg) ]
    /\ UNCHANGED << window_vars, server_records, shazu_predictions, arg >>

CallPredictKillGroup2 ==
    /\ called = "init"
    /\ called' = "predict_kill_group_2"
    /\ ret' = predict_kill_group_2(IF arg = None THEN EmptySection ELSE arg.section, arg)
    /\ UNCHANGED << window_vars, server_records, shazu_predictions, arg >>

CallUpdatePrediction ==
    /\ called = "init"
    /\ arg # None
    /\ \E shazu \in RecordShazus :
          /\ shazu_predictions' = shazu
          /\ update_prediction(arg, shazu, next_section, label_current_issue)
    /\ called' = "update_prediction"
    /\ ret' = IF update_prediction_raises(arg) THEN IndexError ELSE NoRet
    /\ UNCHANGED << latest_records, ai_predictions_by_issue, next_section,
                    label_prev_summary, label_stats_main, label_streak, table,
                    ui_vars, server_records, arg >>

NextRecord == ReadProperties \/ CallPredictKillGroup2 \/ CallUpdatePrediction

SpecRecord == InitRecord /\ [][NextRecord]_vars


-----------------------------------------------------------------------------
(* Properties of SpecRecord *)

Opposite(c) ==
    IF c = Da THEN Xiao
    ELSE IF c = Xiao THEN Da
    ELSE IF c = Dan THEN Shuang
    ELSE Dan

\* the examined record has three codes at least
ArgHasThree == arg # None /\ Len(arg.open_codes) >= 3

D1 == arg.open_codes[1]
D2 == arg.open_codes[2]
D3 == arg.open_codes[3]

\* C4: for every record with digits d1,d2,d3 the total is d1+d2+d3, the
\* magnitude is da exactly when the total is >= 14 and xiao otherwise, the
\* parity is dan exactly when the total is odd and shuang otherwise.
C4_OutcomeClassifier ==
    (called = "properties" /\ ArgHasThree) =>
        /\ ret.total = D1 + D2 + D3
        /\ \/ (ret.da_xiao = Da /\ D1 + D2 + D3 >= 14)
           \/ (ret.da_xiao = Xiao /\ D1 + D2 + D3 < 14)
        /\ \/ (ret.dan_shuang = Dan /\ (D1 + D2 + D3) % 2 = 1)
           \/ (ret.dan_shuang = Shuang /\ (D1 + D2 + D3) % 2 = 0)

\* a record of four codes whose first three add up to 14 exactly
C4_Witness ==
    /\ called = "properties"
    /\ ArgHasThree
    /\ Len(arg.open_codes) = 4 /\ arg.open_codes[4] > 0
    /\ D1 + D2 + D3 = 14
    /\ ret.da_xiao = Da /\ ret.dan_shuang = Shuang

\* C5: for every previous record with three digits at least, update_prediction
\* guesses da exactly when d2+d3 > 13 and dan exactly when d1+d2 is odd, the
\* kill combo is the opposite magnitude with the opposite parity, and the
\* scorer's copy of the rule gives the same guess for the same record.
C5_PredictorA ==
    (called = "update_prediction" /\ ArgHasThree) =>
        /\ label_predict.guess_dx = (IF D2 + D3 > 13 THEN Da ELSE Xiao)
        /\ label_predict.guess_ds = (IF (D1 + D2) % 2 = 1 THEN Dan ELSE Shuang)
        /\ label_predict.combo = << label_predict.guess_dx, label_predict.guess_ds >>
        /\ label_predict.kill_combo = << Opposite(label_predict.guess_dx), Opposite(label_predict.guess_ds) >>
        /\ score_guess_dx(arg) = label_predict.guess_dx
        /\ score_guess_ds(arg) = label_predict.guess_ds

\* a record at the magnitude threshold (d2+d3 = 13) with d1+d2 odd
C5_Witness ==
    /\ called = "update_prediction"
    /\ ArgHasThree
    /\ D2 + D3 = 13 /\ (D1 + D2) % 2 = 1
    /\ label_predict.guess_dx = Xiao /\ label_predict.guess_ds = Dan
    /\ label_predict.kill_combo = << Da, Shuang >>

IsFiveNineThree == ArgHasThree /\ Take(arg.open_codes, 3) = << 5, 9, 3 >>

\* C6 as stated: for the digits (5, 9, 3) Predictor A guesses da and shuang.
C6_Original ==
    (called = "update_prediction" /\ IsFiveNineThree) =>
        label_predict.guess_dx = Da /\ label_predict.guess_ds = Shuang

\* C6, amended: for the digits (5, 9, 3) Predictor A guesses xiao (d2+d3 = 12
\* is not above 13) and shuang (d1+d2 = 14 is even).
C6_Amended ==
    (called = "update_prediction" /\ IsFiveNineThree) =>
        /\ label_predict.guess_dx = Xiao /\ label_predict.guess_ds = Shuang
        /\ label_predict.combo = << Xiao, Shuang >>

C6_Witness ==
    /\ called = "update_prediction"
    /\ IsFiveNineThree
    /\ label_predict.combo = << Xiao, Shuang >>
    /\ label_laomao_pred = << Da, Shuang, Xiao, Dan, Xiao, Shuang >>

\* the first part P of Predictor B, in the words of the algorithm
C7_P(s12) ==
    IF s12 % 2 = 1 /\ s12 <= 9 THEN Shuang
    ELSE IF s12 % 2 = 1 /\ s12 > 9 THEN Dan
    ELSE IF s12 % 2 = 0 /\ s12 <= 4 THEN Shuang
    ELSE IF s12 % 2 = 0 /\ 4 < s12 /\ s12 <= 8 THEN Xiao
    ELSE Dan

C7_ComboParity(P) ==
    IF P \in {Dan, Shuang} THEN Opposite(P)
    ELSE IF P = Da THEN Dan ELSE Shuang

C7_KillGroup(P, cm, cp) ==
    IF P \in {Da, Xiao} THEN << Opposite(P), Opposite(cp) >>
    ELSE << Opposite(cm), Opposite(P) >>

C7_CrossAxisReached ==
    /\ called = "predict_kill_group_2"
    /\ ArgHasThree
    /\ ret[1][1] = Xiao

\* C10: with no previous record, or one of fewer than three digits,
\* predict_kill_group_2 returns wei zhi for both outputs; with a record of
\* fewer than three digits update_prediction shows shu ju bu zu for both
\* predictors and computes no guess; neither raises.
C10_InsufficientData ==
    /\ (called = "predict_kill_group_2" /\ ~ArgHasThree) =>
           ret = << WeiZhi, WeiZhi >>
    /\ (called = "update_prediction" /\ ~ArgHasThree) =>
           /\ ret = NoRet
           /\ label_predict = PredictInsufficient
           /\ label_laomao_pred = ShuJuBuZu
           /\ label_kill2_pred = ShuJuBuZu
           /\ current_guess_desc = EmptyStr

\* update_prediction has been applied to a record of two codes
C10_Witness ==
    /\ called = "update_prediction"
    /\ Len(arg.open_codes) = 2
    /\ label_laomao_pred = ShuJuBuZu
    /\ label_kill2_pred = ShuJuBuZu

\* predict_kill_group_2 has been applied to no record and to a short one
C10_NoneReached ==
    called = "predict_kill_group_2" /\ arg = None /\ ret = << WeiZhi, WeiZhi >>


\* C11: when the third party's page holds no entry for the next section,
\* update_prediction raises nothing and the Predictor B value it shows for
\* the next draw is the display predict_kill_group_2 computes from the latest
\* record (as it stands or as format_prediction_display renders it).
C11_LocalFallback ==
    (/\ called = "update_prediction"
     /\ ArgHasThree
     /\ next_section_of(arg.section) \notin DOMAIN shazu_predictions) =>
        LET local == predict_kill_group_2(next_section_of(arg.section), arg)[1]
        IN  /\ ret = NoRet
            /\ \/ label_predict.kill_display_2 = local
               \/ label_kill2_pred \in { local, format_prediction_display(local) }

\* C19: the first part of predict_kill_group_2's display follows the rule of
\* the docstring: n1+n2 even and <= 8 gives xiao, even and > 8 gives dan, odd
\* and <= 9 gives shuang, odd and > 9 gives dan.
C19_DocstringRule ==
    (called = "predict_kill_group_2" /\ ArgHasThree) =>
        ret[1][1] = (IF (D1 + D2) % 2 = 0 /\ D1 + D2 <= 8 THEN Xiao
                     ELSE IF (D1 + D2) % 2 = 0 THEN Dan
                     ELSE IF D1 + D2 <= 9 THEN Shuang
                     ELSE Dan)


-----------------------------------------------------------------------------
(* SpecFormat: format_prediction_display applied to every string of up to   *)
(* MaxStrLen characters, to the placeholders and to the strings of the      *)
(* form "part1 + part2" that get_shazu_predictions (line 194) and           *)
(* predict_kill_group_2 (line 1029) build                                   *)

FormatChars == { Da, Xiao, Dan, Shuang, Plus, Space, Other }

\* the strings of up to maxlen characters
FreeStrings(maxlen) == UNION { [ 1..n -> FormatChars ] : n \in 0..maxlen }

LabelChars == { Da, Xiao, Dan, Shuang, Other }

SpacedStrings ==
    { << p, Space, Plus, Space, c1, c2 >> : p \in LabelChars, c1 \in LabelChars, c2 \in LabelChars }

FormatArgs(maxlen) == FreeStrings(maxlen) \cup SpacedStrings \cup { WeiZhi, HuoQuZhong }

InitFormat ==
    /\ WindowInit
    /\ server_records = << >>
    /\ shazu_predictions = EmptyDict
    /\ called = "init"
    /\ arg \in FormatArgs(MaxStrLen)
    /\ ret = NoRet

CallFormatPredictionDisplay ==
    /\ called = "init"
    /\ called' = "format_prediction_display"
    /\ ret' = format_prediction_display(arg)
    /\ UNCHANGED << window_vars, server_records, shazu_predictions, arg >>

NextFormat == CallFormatPredictionDisplay

SpecFormat == InitFormat /\ [][NextFormat]_vars

-----------------------------------------------------------------------------
(* Properties of SpecFormat *)

\* the labels a display lists, two characters each
RECURSIVE LabelsListed(_)
LabelsListed(s) ==
    IF Len(s) < 2 THEN << >>
    ELSE << SubSeq(s, 1, 2) >> \o LabelsListed(SubSeq(s, 3, Len(s)))

NoLabelTwice(s) ==
    LET l == LabelsListed(s)
    IN  \A i \in 1..Len(l) : \A j \in 1..Len(l) : l[i] = l[j] => i = j

\* the table of section 4.4
C8_Table(label) ==
    IF label = << Da, Dan >> THEN << <<Da, Dan>>, <<Da, Shuang>>, <<Xiao, Dan>> >>
    ELSE IF label = << Da, Shuang >> THEN << <<Da, Dan>>, <<Da, Shuang>>, <<Xiao, Shuang>> >>
    ELSE IF label = << Xiao, Dan >> THEN << <<Da, Dan>>, <<Xiao, Dan>>, <<Xiao, Shuang>> >>
    ELSE << <<Da, Shuang>>, <<Xiao, Dan>>, <<Xiao, Shuang>> >>

\* C8: on each of the four bare labels format_prediction_display returns the
\* three labels of the table joined without separators; the three are
\* distinct and the input is one of them.
C8_BareLabels ==
    (called = "format_prediction_display" /\ arg \in Labels) =>
        /\ Len(ret) = 6
        /\ LabelsListed(ret) = C8_Table(arg)
        /\ NoLabelTwice(ret)
        /\ \A i \in 1..3 : LabelsListed(ret)[i] \in Labels
        /\ \E i \in 1..3 : LabelsListed(ret)[i] = arg

C8_Witness ==
    /\ called = "format_prediction_display"
    /\ arg = << Xiao, Dan >>
    /\ ret = << Da, Dan, Xiao, Dan, Xiao, Shuang >>

Primaries == { Da, Xiao, Dan, Shuang }

\* arg is "p+c" or "p + c"
IsTwoPart(p, c) ==
    arg = << p, Plus >> \o c \/ arg = << p, Space, Plus, Space >> \o c

\* the list of the primary, in the order of section 4.4
C9_PrimaryList(p) ==
    IF p = Da THEN << <<Da, Dan>>, <<Da, Shuang>> >>
    ELSE IF p = Xiao THEN << <<Xiao, Shuang>>, <<Xiao, Dan>> >>
    ELSE IF p = Dan THEN << <<Da, Dan>>, <<Xiao, Dan>> >>
    ELSE << <<Da, Shuang>>, <<Xiao, Shuang>> >>

C9_InListReached ==
    /\ called = "format_prediction_display"
    /\ arg = << Dan, Plus, Da, Dan >>
    /\ ret = << Da, Dan, Xiao, Dan >>


\* n spaces
Spaces(n) == [ i \in 1..n |-> Space ]

\* arg reads primary + combo, with any spaces around the two parts
IsPrimaryPlusCombo(p, c) ==
    \E a \in 0..Len(arg) : \E b \in 0..Len(arg) : \E d \in 0..Len(arg) : \E e \in 0..Len(arg) :
        arg = Spaces(a) \o << p >> \o Spaces(b) \o << Plus >> \o Spaces(d) \o c \o Spaces(e)

\* C18: format_prediction_display returns its input unchanged for every input
\* that is neither one of the four labels nor a "primary + combo" string with
\* a primary among da/xiao/dan/shuang and a combo among the four labels: the
\* empty string, wei zhi, huo qu zhong..., a "+" string with an unrecognised
\* primary or combo.
C18_PassThrough ==
    (/\ called = "format_prediction_display"
     /\ arg \notin Labels
     /\ ~ \E p \in Primaries : \E c \in Labels : IsPrimaryPlusCombo(p, c)) =>
        ret = arg

\* C20: format_prediction_display gives the two-part outputs its docstring
\* lists: "da+xiao shuang" is shown as "da dan da shuang xiao shuang" and
\* "xiao+da dan" as "da dan xiao dan xiao shuang".
C20_DocstringOutputs ==
    called = "format_prediction_display" =>
        /\ arg = << Da, Plus, Xiao, Shuang >> => ret = << Da, Dan, Da, Shuang, Xiao, Shuang >>
        /\ arg = << Xiao, Plus, Da, Dan >> => ret = << Da, Dan, Xiao, Dan, Xiao, Shuang >>


-----------------------------------------------------------------------------
(* SpecScorer: the scorer's loop applied to every list of up to             *)
(* MaxPairRecords records, in any order of their times, equal times         *)
(* included.  A section identifies one draw: the records of a list have     *)
(* different sections.                                                     *)

\* open codes that bring every guess of Predictor A against every outcome,
\* and a list of two codes
SampleCodes == { << 0, 0, 0 >>, << 1, 0, 0 >>, << 0, 9, 5 >>, << 1, 9, 9 >>, << 5, 9, 3 >>, << 5, 9 >> }

PairTimes(maxlen) == 1..maxlen

\* the section of the i-th entry of the server's list
SectionAt(i) == 100 + i

\* the open codes and the time of each of the n entries of a list, the times
\* among 1..maxlen
ScorerHistories(n, maxlen) == [ 1..n -> SampleCodes \X PairTimes(maxlen) ]

InitScorer ==
    /\ WindowInit
    /\ \E n \in 0..MaxPairRecords : \E f \in ScorerHistories(n, MaxPairRecords) :
          server_records = [ i \in 1..n |-> OpenRecord(SectionAt(i), f[i][1], f[i][2]) ]
    /\ shazu_predictions = EmptyDict
    /\ called = "init"
    /\ arg = NoArg
    /\ ret = NoRet

\* lines 690-706 of load_history_and_statistics
ScorePredictions ==
    /\ called = "init"
    /\ called' = "score"
    /\ ret' = predict_result_of(server_records)
    /\ UNCHANGED << window_vars, server_records, shazu_predictions, arg >>

NextScorer == ScorePredictions

SpecScorer == InitScorer /\ [][NextScorer]_vars

-----------------------------------------------------------------------------
(* Properties of SpecScorer *)

\* entry i of the list comes before entry j when the list is sorted from
\* the oldest to the newest: by time, and by place in the list at equal times
ComesBefore(i, j) ==
    \/ server_records[i].open_time < server_records[j].open_time
    \/ /\ server_records[i].open_time = server_records[j].open_time
       /\ i < j

\* entries i and j are an adjacent pair (prev, target) of the sorted list
AdjacentPair(i, j) ==
    /\ ComesBefore(i, j)
    /\ ~ \E k \in 1..Len(server_records) : ComesBefore(i, k) /\ ComesBefore(k, j)

HasThree(r) == Len(r.open_codes) >= 3

\* Predictor A's guess from prev matches the magnitude or the parity of target
C1_GuessMatches(prev, target) ==
    LET sum == target.open_codes[1] + target.open_codes[2] + target.open_codes[3]
        guess_dx == IF prev.open_codes[2] + prev.open_codes[3] > 13 THEN Da ELSE Xiao
        guess_ds == IF (prev.open_codes[1] + prev.open_codes[2]) % 2 = 1 THEN Dan ELSE Shuang
    IN  \/ guess_dx = (IF sum >= 14 THEN Da ELSE Xiao)
        \/ guess_ds = (IF sum % 2 = 1 THEN Dan ELSE Shuang)

\* C1: with the records sorted from the oldest to the newest, every adjacent
\* pair (prev, target) of two records with three digits at least maps
\* target.section to dui exactly when Predictor A's guess from prev matches
\* target's magnitude or target's parity, and to cuo otherwise; a pair with a
\* record of fewer than three digits adds no entry.
C1_Scorer ==
    called = "score" =>
        \A i \in 1..Len(server_records) : \A j \in 1..Len(server_records) :
            AdjacentPair(i, j) =>
                LET prev == server_records[i]
                    target == server_records[j]
                IN  IF HasThree(prev) /\ HasThree(target)
                    THEN /\ target.section \in DOMAIN ret
                         /\ ret[target.section] = (IF C1_GuessMatches(prev, target) THEN Dui ELSE Cuo)
                    ELSE target.section \notin DOMAIN ret

\* the guess da dan against the outcome da shuang is a hit, in a list whose
\* order is not the order of the times
C1_Witness ==
    /\ called = "score"
    /\ \E i \in 1..Len(server_records) : \E j \in 1..Len(server_records) :
          /\ AdjacentPair(i, j) /\ j < i
          /\ server_records[i].open_codes = << 0, 9, 5 >>
          /\ server_records[j].open_codes = << 0, 9, 5 >>
          /\ ret[server_records[j].section] = Dui

\* a pair is left out for a short record while another pair is scored a miss
C1_SkipAndMissReached ==
    /\ called = "score"
    /\ \E i \in 1..Len(server_records) : \E j \in 1..Len(server_records) :
          AdjacentPair(i, j) /\ ~HasThree(server_records[i])
    /\ \E s \in DOMAIN ret : ret[s] = Cuo


-----------------------------------------------------------------------------
(* SpecTable: load_history_and_statistics applied to histories longer than  *)
(* the window of PERIOD_COUNT records, then calculate_win_rate called at    *)
(* every start position.  The draws of a history are numbered 1 (the        *)
(* oldest) to n; draw j has time j and section SectionAt(j).                *)

FullCodes == << << 0, 0, 0 >>, << 1, 0, 0 >>, << 0, 9, 5 >>, << 1, 9, 9 >>, << 5, 9, 3 >>, << 9, 9, 9 >>, << 0, 4, 9 >> >>

\* the draws' open codes walk through FullCodes with this stride
Strides == { 1, 2 }

TableDraw(j, stride) ==
    OpenRecord(SectionAt(j), FullCodes[((j * stride) % Len(FullCodes)) + 1], j)

\* the server's list of n draws, the newest first or the oldest first
TableHistory(n, stride, newest_first) ==
    [ i \in 1..n |-> TableDraw(IF newest_first THEN n + 1 - i ELSE i, stride) ]

TableLengths == { 0, 1, MaxRecords }

\* the third party's page: the newest h draws reported right, the m before
\* them reported wrong, the one before those without a verdict
TableShazu(n, h, m) ==
    [ sec \in { SectionAt(j) : j \in { x \in 1..n : n - x <= h + m } } |->
        LET rank == n - (sec - SectionAt(0))
        IN  << << Dan, Space, Plus, Space, Da, Shuang >>,
               IF rank < h THEN Dui ELSE IF rank < h + m THEN Cuo ELSE EmptyStr >> ]

LabelSeq == << <<Da, Dan>>, <<Da, Shuang>>, <<Xiao, Dan>>, <<Xiao, Shuang>> >>

\* the AI log: empty, da dan for every draw, or a label for every other draw
AiLogs(n) ==
    { EmptyDict,
      [ sec \in { SectionAt(j) : j \in 1..n } |-> << Da, Dan >> ],
      [ sec \in { SectionAt(j) : j \in { x \in 1..n : x % 2 = 0 } } |->
          LabelSeq[(((sec - SectionAt(0)) \div 2) % 4) + 1] ] }

InitTable ==
    /\ latest_records = << >>
    /\ LabelsInit
    /\ FieldsInit(EmptyStr)
    /\ called = "init"
    /\ arg = NoArg
    /\ ret = NoRet
    /\ \E n \in TableLengths :
          /\ \E stride \in Strides : \E newest_first \in BOOLEAN :
                server_records = TableHistory(n, stride, newest_first)
          /\ \E h \in 0..Min(n, MaxHits) : \E m \in 0..(n - h) :
                shazu_predictions = TableShazu(n, h, m)
          /\ ai_predictions_by_issue \in AiLogs(n)

LoadHistoryAndStatistics ==
    /\ called = "init"
    /\ called' = "load_history_and_statistics"
    /\ load_history_and_statistics(server_records, shazu_predictions, shazu_predictions, next_section, label_current_issue)
    /\ UNCHANGED << ai_predictions_by_issue, next_section, ui_vars,
                    server_records, shazu_predictions, arg, ret >>

ModelTypes == { "laomao", "kill2", "ai" }

\* calculate_win_rate called as populate_table calls it, at any start
CallCalculateWinRate ==
    /\ called = "load_history_and_statistics"
    /\ called' = "calculate_win_rate"
    /\ \E model_type \in ModelTypes : \E start_index \in 0..(Len(latest_records) + 1) :
          /\ arg' = [ model_type |-> model_type, start_index |-> start_index ]
          /\ ret' = calculate_win_rate(sorted_new_to_old(latest_records), predict_result_of(latest_records), shazu_predictions, ai_predictions_by_issue, model_type, start_index, PERIOD_COUNT)
    /\ UNCHANGED << window_vars, server_records, shazu_predictions >>

NextTable == LoadHistoryAndStatistics \/ CallCalculateWinRate

SpecTable == InitTable /\ [][NextTable]_vars


-----------------------------------------------------------------------------
(* Properties of SpecTable *)

\* the hit or miss the table shows on row j (counted from 1) for a model
RecordedResult(j, model_type) ==
    IF model_type = "laomao" THEN table[j].hit
    ELSE IF model_type = "kill2" THEN table[j].kill_2_hit
    ELSE table[j].ai_hit

\* rows start .. min(len, start + 20) - 1, counted from 0, as rows from 1
WindowRows(start) == { j \in 1..Len(table) : start + 1 <= j /\ j <= start + 20 }

\* n: the window's records with a recorded hit or miss; k: those that are hits
RecordedIn(start, model_type) ==
    Cardinality({ j \in WindowRows(start) : RecordedResult(j, model_type) # EmptyStr })

HitsIn(start, model_type) ==
    Cardinality({ j \in WindowRows(start) : RecordedResult(j, model_type) = Dui })

IsDigitChar(c) == \E d \in 0..9 : DigitChars[d + 1] = c

DigitValue(c) == CHOOSE d \in 0..9 : DigitChars[d + 1] = c

RECURSIVE DecimalValue(_)
DecimalValue(s) ==
    IF s = << >> THEN 0
    ELSE 10 * DecimalValue(SubSeq(s, 1, Len(s) - 1)) + DigitValue(s[Len(s)])

\* s reads <digits>.<digit>%
IsPercent(s) ==
    /\ Len(s) >= 4
    /\ s[Len(s)] = "%"
    /\ IsDigitChar(s[Len(s) - 1])
    /\ s[Len(s) - 2] = "."
    /\ \A i \in 1..(Len(s) - 3) : IsDigitChar(s[i])
    /\ (Len(s) > 4 => s[1] # "0")

\* the percentage s reads, in tenths
TenthsOf(s) == 10 * DecimalValue(SubSeq(s, 1, Len(s) - 3)) + DigitValue(s[Len(s) - 1])

Distance(a, b) == IF a >= b THEN a - b ELSE b - a

\* rate is what k hits of n recorded results give: "--" for n = 0, else
\* 100*k/n written with one decimal, no further from it than half a tenth
IsRateOf(rate, k, n) ==
    IF n = 0 THEN rate = DashDash
    ELSE IsPercent(rate) /\ 2 * Distance(1000 * k, n * TenthsOf(rate)) <= n

\* C2: calculate_win_rate returns "--" when no record of the window has a
\* recorded hit or miss, else 100*k/n rounded to one decimal, n the window's
\* records with a recorded result and k the hits among them; records
\* without one count in neither; 3 hits and 2 misses among 20 give 60.0%.
C2_WinRate ==
    (called = "calculate_win_rate" /\ arg.start_index < Len(table)) =>
        LET n == RecordedIn(arg.start_index, arg.model_type)
            k == HitsIn(arg.start_index, arg.model_type)
        IN  /\ IsRateOf(ret, k, n)
            /\ (n = 0) <=> (ret = DashDash)
            /\ (k = 3 /\ n = 5) => ret = << "6", "0", ".", "0", "%" >>

\* a window of 20 records, 3 of them hits, 2 misses and 15 without a result
C2_Witness ==
    /\ called = "calculate_win_rate"
    /\ arg.model_type = "kill2"
    /\ Cardinality(WindowRows(arg.start_index)) = 20
    /\ HitsIn(arg.start_index, "kill2") = 3
    /\ RecordedIn(arg.start_index, "kill2") = 5
    /\ ret = << "6", "0", ".", "0", "%" >>

\* a tie between two tenths: 1 hit of 16 is 6.25
C2_TieReached ==
    /\ called = "calculate_win_rate"
    /\ arg.start_index < Len(table)
    /\ HitsIn(arg.start_index, arg.model_type) = 1
    /\ RecordedIn(arg.start_index, arg.model_type) = 16
    /\ ret = << "6", ".", "2", "%" >>

\* a window without any recorded result
C2_NoneRecordedReached ==
    /\ called = "calculate_win_rate"
    /\ arg.start_index < Len(table)
    /\ Cardinality(WindowRows(arg.start_index)) = 20
    /\ ret = DashDash

\* C3: on every row i of the table, each of the three win rates is the rate
\* of the records on rows i .. min(len, i+20)-1 of the list sorted from the
\* newest to the oldest; a start at or past the end of the list gives "--".
C3_SlidingWindow ==
    /\ called = "load_history_and_statistics" =>
          \A i \in 0..(Len(table) - 1) :
              /\ IsRateOf(table[i + 1].laomao_rate, HitsIn(i, "laomao"), RecordedIn(i, "laomao"))
              /\ IsRateOf(table[i + 1].kill2_rate, HitsIn(i, "kill2"), RecordedIn(i, "kill2"))
              /\ IsRateOf(table[i + 1].ai_rate, HitsIn(i, "ai"), RecordedIn(i, "ai"))
    /\ called = "load_history_and_statistics" =>
          \A i \in 1..(Len(table) - 1) : table[i].open_time >= table[i + 1].open_time
    /\ (called = "calculate_win_rate" /\ arg.start_index >= Len(table)) => ret = DashDash

\* a table longer than the window, from a list given oldest first: the rate
\* of the first row (a full window) differs from the rates of the rows
\* below it
C3_Witness ==
    /\ called = "load_history_and_statistics"
    /\ Len(table) > 20
    /\ server_records[1].open_time < server_records[2].open_time
    /\ table[1].kill2_rate # table[2].kill2_rate
    /\ table[1].laomao_rate # table[2].laomao_rate
    /\ table[1].ai_rate # table[3].ai_rate

\* a start past the end of a list that is not empty
C3_PastEndReached ==
    /\ called = "calculate_win_rate"
    /\ Len(table) > 0
    /\ arg.start_index > Len(table)
    /\ ret = DashDash

\* the position in the server's list of the draw with the latest open_time
NewestIndex ==
    CHOOSE i \in 1..Len(server_records) :
        \A j \in 1..Len(server_records) : server_records[j].open_time <= server_records[i].open_time

\* the draws no older than draw i
NoOlderThan(i) ==
    { j \in 1..Len(server_records) : server_records[j].open_time >= server_records[i].open_time }

\* C15: in whatever order the server lists the draws, the streak description
\* names the magnitude and the parity of the draw with the latest open_time
\* and counts the run of the chronologically most recent draws that share
\* it.
C15_StreakFromNewest ==
    (called = "load_history_and_statistics" /\ server_records # << >>) =>
        LET newest == server_records[NewestIndex]
            run_dx == { i \in 1..Len(server_records) : \A j \in NoOlderThan(i) : da_xiao(server_records[j]) = da_xiao(newest) }
            run_ds == { i \in 1..Len(server_records) : \A j \in NoOlderThan(i) : dan_shuang(server_records[j]) = dan_shuang(newest) }
        IN  /\ label_streak.last_dx = da_xiao(newest)
            /\ label_streak.streak_dx = Cardinality(run_dx)
            /\ label_streak.last_ds = dan_shuang(newest)
            /\ label_streak.streak_ds = Cardinality(run_ds)


-----------------------------------------------------------------------------
(* SpecOrder: load_history_and_statistics applied to every list of up to    *)
(* MaxPairRecords draws of three codes, in any order of their times, equal  *)
(* times included.  The records of a list have different sections.          *)

\* open codes of three digits that bring every guess of Predictor A against
\* every outcome
OrderCodes == { << 0, 0, 0 >>, << 1, 0, 0 >>, << 0, 9, 5 >>, << 1, 9, 9 >>, << 5, 9, 3 >> }

OrderHistories(n, maxlen) == [ 1..n -> OrderCodes \X PairTimes(maxlen) ]

InitOrder ==
    /\ WindowInit
    /\ \E n \in 0..MaxPairRecords : \E f \in OrderHistories(n, MaxPairRecords) :
          server_records = [ i \in 1..n |-> OpenRecord(SectionAt(i), f[i][1], f[i][2]) ]
    /\ shazu_predictions = EmptyDict
    /\ called = "init"
    /\ arg = NoArg
    /\ ret = NoRet

NextOrder == LoadHistoryAndStatistics

SpecOrder == InitOrder /\ [][NextOrder]_vars

-----------------------------------------------------------------------------
(* Properties of SpecOrder *)

\* the place (from 1) of entry i of the server's list in the order from the
\* oldest to the newest that the scorer uses
PlaceOldToNew(i) ==
    Cardinality({ k \in 1..Len(server_records) : ComesBefore(k, i) }) + 1

\* the draw shown on row j of the table
RowRecord(j) ==
    [ section |-> table[j].section,
      open_codes |-> << table[j].code1, table[j].code2, table[j].code3 >> ]

\* C21: the table's order from the newest to the oldest is the exact reverse
\* of the scorer's order from the oldest to the newest, for every list,
\* lists with equal open_time included; hence the hit or miss shown on row i
\* of the table was computed with the record on row i+1 as the predicting
\* record.
C21_ExactReverse ==
    called = "load_history_and_statistics" =>
        LET n == Len(server_records)
        IN  /\ Len(table) = n
            /\ \A i \in 1..n :
                  table[n + 1 - PlaceOldToNew(i)].section = server_records[i].section
            /\ \A j \in 1..(n - 1) :
                  table[j].hit = (IF C1_GuessMatches(RowRecord(j + 1), RowRecord(j))
                                  THEN Dui ELSE Cuo)

=============================================================================
